---- MODULE Spec2Model ----
(***************************************************************************)
(* Entity co-occurrence network of the news frontend:                      *)
(*   services/entityFetcher, relationshipCalculator, networkNodeBuilder,   *)
(*   networkLinkBuilder, entityService  (the graph builder)                *)
(*   components/NetworkGraph            (filters, graph-state cache)       *)
(*   components/ForceGraph2D            (positions, drag, save, restore)   *)
(*                                                                         *)
(* Strings are sequences of UTF-16 code units, so that string order,       *)
(* concatenation, case folding and substring search are computed as        *)
(* JavaScript computes them.                                               *)
(***************************************************************************)
EXTENDS Integers, Sequences, FiniteSets, TLC

\* ------------------------------------------------------------------------
\* Bounds of the model
\* ------------------------------------------------------------------------
MaxMentions == 4

NumFeatures == 2

\* ------------------------------------------------------------------------
\* Strings
\* ------------------------------------------------------------------------
\* entity names: "X", "X|Y", "Y", "Y|Z", "Z"
nX == <<88>>

nXY == <<88, 124, 89>>

nY == <<89>>

nYZ == <<89, 124, 90>>

nZ == <<90>>

EntityNames == {nX, nXY, nY, nYZ, nZ}

\* raw entity_type strings of the feature_entities table: "PEOPLE", "LOCATIONS", "ORGANIZATIONS"
tPEOPLE == <<80, 69, 79, 80, 76, 69>>

tLOCATIONS == <<76, 79, 67, 65, 84, 73, 79, 78, 83>>

tORGANIZATIONS == <<79, 82, 71, 65, 78, 73, 90, 65, 84, 73, 79, 78, 83>>

\* JavaScript  a < b  on strings: lexicographic order of the code units
StrLess(a, b) ==
  \E i \in 1..Len(b) :
     /\ i <= Len(a) + 1
     /\ \A j \in 1..(i - 1) : a[j] = b[j]
     /\ (i = Len(a) + 1 \/ a[i] < b[i])

\* String.prototype.includes
Includes(s, sub) ==
  \E k \in 0..(Len(s) - Len(sub)) : \A j \in 1..Len(sub) : s[k + j] = sub[j]

\* String.prototype.toUpperCase / toLowerCase on the ASCII letters
ToUpperCase(s) == [i \in 1..Len(s) |-> IF s[i] >= 97 /\ s[i] <= 122 THEN s[i] - 32 ELSE s[i]]

ToLowerCase(s) == [i \in 1..Len(s) |-> IF s[i] >= 65 /\ s[i] <= 90 THEN s[i] + 32 ELSE s[i]]

\* String.prototype.trim (space, tab, line feed, carriage return)
IsSpace(c) == c \in {32, 9, 10, 13}

RECURSIVE TrimStart(_)
TrimStart(s) == IF s # <<>> /\ IsSpace(Head(s)) THEN TrimStart(Tail(s)) ELSE s

RECURSIVE TrimEnd(_)
TrimEnd(s) == IF s # <<>> /\ IsSpace(s[Len(s)]) THEN TrimEnd(SubSeq(s, 1, Len(s) - 1)) ELSE s

Trim(s) == TrimEnd(TrimStart(s))

\* Number.prototype.toString for a non-negative integer
RECURSIVE NumToString(_)
NumToString(n) == IF n < 10 THEN <<48 + n>> ELSE NumToString(n \div 10) \o <<48 + (n % 10)>>

\* ------------------------------------------------------------------------
\* Generic sequence helpers (Array.prototype.*)
\* ------------------------------------------------------------------------
Range(s) == {s[i] : i \in 1..Len(s)}

\* insertion of the keyed pair x = <<key, item>> into a sequence sorted by
\* descending key, after the pairs of equal key
RECURSIVE InsertDesc(_, _)
InsertDesc(s, x) ==
  IF s = <<>> THEN <<x>>
  ELSE IF Head(s)[1] >= x[1] THEN <<Head(s)>> \o InsertDesc(Tail(s), x)
  ELSE <<x>> \o s

RECURSIVE SortDescFrom(_, _)
SortDescFrom(s, acc) ==
  IF s = <<>> THEN acc ELSE SortDescFrom(Tail(s), InsertDesc(acc, Head(s)))

\* Array.prototype.sort((a, b) => key(b) - key(a)): stable, descending
SortDesc(s, KeyOf(_)) ==
  LET keyed == [i \in 1..Len(s) |-> <<KeyOf(s[i]), s[i]>>]
      sorted == SortDescFrom(keyed, <<>>)
  IN  [i \in 1..Len(s) |-> sorted[i][2]]

\* index of the first element of s satisfying Test, 0 if none (Map.has / Map.get)
IndexOf(s, Test(_)) ==
  IF \E i \in 1..Len(s) : Test(s[i])
  THEN CHOOSE i \in 1..Len(s) : Test(s[i]) /\ \A j \in 1..(i - 1) : ~Test(s[j])
  ELSE 0

\* ------------------------------------------------------------------------
\* services/entityNormalizer.ts
\* ------------------------------------------------------------------------
\* null or undefined in place of the string: no code units of its own, written
\* as a sequence so that it compares with strings
Missing == <<-1>>

\* !entityType
IsFalsy(entityType) == entityType = Missing \/ entityType = <<>>

\* a normalizeEntityType that compares the text as it is written
normalizeEntityTypeAsWritten(entityType) ==
  IF IsFalsy(entityType) THEN "ORGANIZATION"
  ELSE LET type == Trim(entityType) IN
       IF type = tPEOPLE THEN "PERSON"
       ELSE IF type = tLOCATIONS THEN "LOCATION"
       ELSE IF type = tORGANIZATIONS THEN "ORGANIZATION"
       ELSE IF \/ Includes(type, <<80, 69, 82, 83, 79, 78>>)
               \/ Includes(type, <<80, 69, 82>>)
               \/ type = tPEOPLE
            THEN "PERSON"
       ELSE IF \/ Includes(type, <<76, 79, 67, 65, 84, 73, 79, 78>>)
               \/ Includes(type, <<76, 79, 67>>)
               \/ Includes(type, <<80, 76, 65, 67, 69>>)
               \/ type = tLOCATIONS
            THEN "LOCATION"
       ELSE IF \/ Includes(type, <<79, 82, 71>>)
               \/ Includes(type, <<67, 79, 77, 80, 65, 78, 89>>)
               \/ Includes(type, <<73, 78, 83, 84, 73, 84, 85, 84, 73, 79, 78>>)
               \/ type = tORGANIZATIONS
            THEN "ORGANIZATION"
       ELSE "ORGANIZATION"

\* EntityNormalizer.normalizeEntityType; the result is one of the three
\* literal types, written here as TLA+ strings
normalizeEntityType(entityType) ==
  IF IsFalsy(entityType) THEN "ORGANIZATION"
  ELSE LET type == Trim(ToUpperCase(entityType)) IN
       IF type = tPEOPLE THEN "PERSON"
       ELSE IF type = tLOCATIONS THEN "LOCATION"
       ELSE IF type = tORGANIZATIONS THEN "ORGANIZATION"
       ELSE IF \/ Includes(type, <<80, 69, 82, 83, 79, 78>>)
               \/ Includes(type, <<80, 69, 82>>)
               \/ type = tPEOPLE
            THEN "PERSON"
       ELSE IF \/ Includes(type, <<76, 79, 67, 65, 84, 73, 79, 78>>)
               \/ Includes(type, <<76, 79, 67>>)
               \/ Includes(type, <<80, 76, 65, 67, 69>>)
               \/ type = tLOCATIONS
            THEN "LOCATION"
       ELSE IF \/ Includes(type, <<79, 82, 71>>)
               \/ Includes(type, <<67, 79, 77, 80, 65, 78, 89>>)
               \/ Includes(type, <<73, 78, 83, 84, 73, 84, 85, 84, 73, 79, 78>>)
               \/ type = tORGANIZATIONS
            THEN "ORGANIZATION"
       ELSE "ORGANIZATION"

\* ------------------------------------------------------------------------
\* services/relationshipCalculator.ts
\* ------------------------------------------------------------------------
\* entitiesByFeature: a Map in insertion order, as a sequence of
\* [featureId, entities]
RECURSIVE GroupByFeatureFrom(_, _)
GroupByFeatureFrom(rest, acc) ==
  IF rest = <<>> THEN acc
  ELSE LET entity == Head(rest)
           at == IndexOf(acc, LAMBDA g : g.featureId = entity.feature_id)
           withKey == IF at = 0
                      THEN Append(acc, [featureId |-> entity.feature_id, entities |-> <<>>])
                      ELSE acc
           pos == IF at = 0 THEN Len(withKey) ELSE at
       IN  GroupByFeatureFrom(Tail(rest),
             [withKey EXCEPT ![pos].entities = Append(@, entity)])

GroupByFeature(allEntities) == GroupByFeatureFrom(allEntities, <<>>)

\* the index pairs (i, j), i < j, in the order of the two nested for loops
RECURSIVE IndexPairsFrom(_, _, _)
IndexPairsFrom(i, j, n) ==
  IF i > n THEN <<>>
  ELSE IF j > n THEN IndexPairsFrom(i + 1, i + 2, n)
  ELSE <<<<i, j>>>> \o IndexPairsFrom(i, j + 1, n)

\* the pairs of one feature that reach  occurrence.count++ : those that pass
\* the  entity1 === entity2  test
PairsOfFeature(group) ==
  IF Len(group.entities) < 2 THEN <<>>
  ELSE LET ips == IndexPairsFrom(1, 2, Len(group.entities))
           all == [k \in 1..Len(ips) |->
                     [entity1 |-> group.entities[ips[k][1]].entity_name,
                      entity2 |-> group.entities[ips[k][2]].entity_name,
                      featureId |-> group.featureId]]
       IN  SelectSeq(all, LAMBDA p : p.entity1 # p.entity2)

RECURSIVE PairsOfGroups(_)
PairsOfGroups(groups) ==
  IF groups = <<>> THEN <<>>
  ELSE PairsOfFeature(Head(groups)) \o PairsOfGroups(Tail(groups))

\* the consistent key  `${a}|${b}`  with a the smaller name
CoOccurrenceKey(entity1, entity2) ==
  IF StrLess(entity1, entity2) THEN entity1 \o <<124>> \o entity2
  ELSE entity2 \o <<124>> \o entity1

\* the pair as met, not put in order
SortedEntitiesAsMet(entity1, entity2) == <<entity1, entity2>>

\* [sortedEntity1, sortedEntity2]
SortedEntities(entity1, entity2) ==
  IF StrLess(entity1, entity2) THEN <<entity1, entity2>> ELSE <<entity2, entity1>>

\* Set.prototype.add on a Set kept in insertion order
SetAdd(set, x) == IF x \in Range(set) THEN set ELSE Append(set, x)

\* one pass of the body of the inner loop: has / set / get / count++ / add
CountPair(coOccurrences, p) ==
  LET key == CoOccurrenceKey(p.entity1, p.entity2)
      sorted == SortedEntities(p.entity1, p.entity2)
      at == IndexOf(coOccurrences, LAMBDA o : o.key = key)
      withKey == IF at = 0
                 THEN Append(coOccurrences,
                        [key |-> key, entity1 |-> sorted[1], entity2 |-> sorted[2],
                         count |-> 0, shared_feature_ids |-> <<>>])
                 ELSE coOccurrences
      pos == IF at = 0 THEN Len(withKey) ELSE at
  IN  [withKey EXCEPT ![pos].count = @ + 1,
                      ![pos].shared_feature_ids = SetAdd(@, p.featureId)]

RECURSIVE CoOccurrencesFrom(_, _)
CoOccurrencesFrom(pairs, acc) ==
  IF pairs = <<>> THEN acc ELSE CoOccurrencesFrom(Tail(pairs), CountPair(acc, Head(pairs)))

\* RelationshipCalculator.calculateEntityRelationships on the fetched
\* mentions, the in-place sort of the "Top 10" log included
calculateEntityRelationships(allEntities) ==
  LET entitiesByFeature == GroupByFeature(allEntities)
      coOccurrences == CoOccurrencesFrom(PairsOfGroups(entitiesByFeature), <<>>)
      relationships ==
        [k \in 1..Len(coOccurrences) |->
           [entity1 |-> coOccurrences[k].entity1,
            entity2 |-> coOccurrences[k].entity2,
            co_occurrence_count |-> coOccurrences[k].count,
            shared_feature_ids |->
              [m \in 1..Len(coOccurrences[k].shared_feature_ids) |->
                 NumToString(coOccurrences[k].shared_feature_ids[m])]]]
  IN  SortDesc(relationships, LAMBDA r : r.co_occurrence_count)

\* the number of  count++  executed for one feature_id
IncrementsOf(allEntities, featureId) ==
  Len(SelectSeq(PairsOfGroups(GroupByFeature(allEntities)),
                LAMBDA p : p.featureId = featureId))

\* ------------------------------------------------------------------------
\* services/networkNodeBuilder.ts, services/networkLinkBuilder.ts
\* ------------------------------------------------------------------------
\* uniqueEntities: a Map in insertion order, as a sequence of
\* [name, type, feature_ids]
RECURSIVE UniqueEntitiesFrom(_, _)
UniqueEntitiesFrom(rest, acc) ==
  IF rest = <<>> THEN acc
  ELSE LET entity == Head(rest)
           at == IndexOf(acc, LAMBDA u : u.name = entity.entity_name)
           withKey == IF at = 0
                      THEN Append(acc, [name |-> entity.entity_name,
                                        type |-> entity.entity_type,
                                        feature_ids |-> <<>>])
                      ELSE acc
           pos == IF at = 0 THEN Len(withKey) ELSE at
       IN  UniqueEntitiesFrom(Tail(rest),
             [withKey EXCEPT ![pos].feature_ids = Append(@, NumToString(entity.feature_id))])

\* connectionCounts.set(name, (connectionCounts.get(name) || 0) + 1)
BumpConnection(counts, name) ==
  LET at == IndexOf(counts, LAMBDA c : c.name = name)
  IN  IF at = 0 THEN Append(counts, [name |-> name, count |-> 1])
      ELSE [counts EXCEPT ![at].count = @ + 1]

RECURSIVE CountConnections(_, _)
CountConnections(rels, counts) ==
  IF rels = <<>> THEN counts
  ELSE CountConnections(Tail(rels),
         BumpConnection(BumpConnection(counts, Head(rels).entity1), Head(rels).entity2))

\* connectionCounts.get(name) || 0
ConnectionsOf(counts, name) ==
  LET at == IndexOf(counts, LAMBDA c : c.name = name)
  IN  IF at = 0 THEN 0 ELSE counts[at].count

Min2(a, b) == IF a < b THEN a ELSE b

Max2(a, b) == IF a > b THEN a ELSE b

\* the part of NetworkNodeBuilder.createNetworkNodes after its two awaits:
\* allEntities is its own fetch, relationships the calculator's result
createNetworkNodes(allEntities, relationships) ==
  LET uniqueEntities == UniqueEntitiesFrom(allEntities, <<>>)
      zeroCounts == [k \in 1..Len(uniqueEntities) |->
                       [name |-> uniqueEntities[k].name, count |-> 0]]
      connectionCounts == CountConnections(relationships, zeroCounts)
      networkNodes ==
        [k \in 1..Len(uniqueEntities) |->
           LET entity == uniqueEntities[k]
               normalizedType == normalizeEntityType(entity.type)
               connections == ConnectionsOf(connectionCounts, entity.name)
           IN  [id |-> entity.name,
                name |-> entity.name,
                type |-> normalizedType,
                size |-> Max2(10, Min2(50, 10 + connections * 2)),
                color |-> IF normalizedType = "PERSON" THEN "#60a5fa"
                          ELSE IF normalizedType = "LOCATION" THEN "#34d399"
                          ELSE "#f59e0b",
                connections |-> connections,
                feature_ids |-> entity.feature_ids]]
  IN  SortDesc(networkNodes, LAMBDA n : n.connections)

\* the part of NetworkLinkBuilder.createNetworkLinks after its await
createNetworkLinks(relationships) ==
  LET networkLinks ==
        [k \in 1..Len(relationships) |->
           [source |-> relationships[k].entity1,
            target |-> relationships[k].entity2,
            strength |-> relationships[k].co_occurrence_count,
            shared_feature_ids |-> relationships[k].shared_feature_ids]]
  IN  SortDesc(networkLinks, LAMBDA l : l.strength)

\* ------------------------------------------------------------------------
\* components/NetworkGraph.tsx: the visible subset (networkData)
\* ------------------------------------------------------------------------
AllEntityTypes == {"PERSON", "LOCATION", "ORGANIZATION"}

\* a search that compares the name as written
NodeVisibleCaseSensitive(node, searchTerm, selectedEntityTypes, minConnections) ==
  /\ ~(Len(searchTerm) > 0 /\ ~Includes(node.name, ToLowerCase(searchTerm)))
  /\ node.type \in selectedEntityTypes
  /\ ~(node.connections < minConnections)

\* a minimum that must be exceeded
NodeVisibleAboveMin(node, searchTerm, selectedEntityTypes, minConnections) ==
  /\ ~(Len(searchTerm) > 0 /\ ~Includes(ToLowerCase(node.name), ToLowerCase(searchTerm)))
  /\ node.type \in selectedEntityTypes
  /\ ~(node.connections <= minConnections)

\* the visible flag the search, type and minimum-connections filters give a node
NodeVisible(node, searchTerm, selectedEntityTypes, minConnections) ==
  LET searchLower == ToLowerCase(searchTerm)
      hasSearchTerm == Len(searchTerm) > 0
  IN  /\ ~(hasSearchTerm /\ ~Includes(ToLowerCase(node.name), searchLower))
      /\ node.type \in selectedEntityTypes
      /\ ~(node.connections < minConnections)

\* updatedNodes / updatedLinks: the base data with refreshed visible flags
UpdatedNodes(orig, searchTerm, selectedEntityTypes, minConnections) ==
  [k \in 1..Len(orig.nodes) |->
     [orig.nodes[k] EXCEPT
        !.visible = NodeVisible(orig.nodes[k], searchTerm, selectedEntityTypes, minConnections)]]

UpdatedLinks(orig, updatedNodes) ==
  LET visibleNodeIds == {updatedNodes[k].id : k \in {m \in 1..Len(updatedNodes) : updatedNodes[m].visible}}
  IN  [k \in 1..Len(orig.links) |->
         [orig.links[k] EXCEPT
            !.visible = orig.links[k].source \in visibleNodeIds
                          /\ orig.links[k].target \in visibleNodeIds]]

\* a selection that shows the selected entities alone with all their links
SelectionDataSelectedOnly(orig, selectedEntities) ==
  LET filteredNodes == SelectSeq(orig.nodes, LAMBDA node : node.name \in selectedEntities)
      selectedIds == {filteredNodes[k].id : k \in 1..Len(filteredNodes)}
      filteredLinks == SelectSeq(orig.links,
                         LAMBDA link : link.source \in selectedIds \/ link.target \in selectedIds)
  IN  [nodes |-> filteredNodes, links |-> filteredLinks]

\* a selection that keeps only the links between selected entities
SelectionDataBothEnds(orig, selectedEntities) ==
  LET filteredNodes == SelectSeq(orig.nodes, LAMBDA node : node.name \in selectedEntities)
      selectedIds == {filteredNodes[k].id : k \in 1..Len(filteredNodes)}
      filteredLinks == SelectSeq(orig.links,
                         LAMBDA link : link.source \in selectedIds /\ link.target \in selectedIds)
  IN  [nodes |-> filteredNodes, links |-> filteredLinks]

\* the branch of networkData taken when entities are selected
SelectionData(orig, selectedEntities) ==
  LET selectedNames == selectedEntities
      filteredNodes == SelectSeq(orig.nodes, LAMBDA node : node.name \in selectedNames)
      selectedIds == {filteredNodes[k].id : k \in 1..Len(filteredNodes)}
      filteredLinks == SelectSeq(orig.links,
                         LAMBDA link : link.source \in selectedIds \/ link.target \in selectedIds)
      connectedNodeIds == selectedIds
                            \cup {filteredLinks[k].source : k \in 1..Len(filteredLinks)}
                            \cup {filteredLinks[k].target : k \in 1..Len(filteredLinks)}
      allNodes == SelectSeq(orig.nodes, LAMBDA node : node.id \in connectedNodeIds)
  IN  [nodes |-> allNodes, links |-> filteredLinks]

\* the networkData memo
networkData(orig, searchTerm, selectedEntityTypes, minConnections, selectedEntities) ==
  IF Len(orig.nodes) = 0 THEN [nodes |-> <<>>, links |-> <<>>]
  ELSE IF selectedEntities # {} THEN SelectionData(orig, selectedEntities)
  ELSE LET updatedNodes == UpdatedNodes(orig, searchTerm, selectedEntityTypes, minConnections)
           updatedLinks == UpdatedLinks(orig, updatedNodes)
       IN  [nodes |-> SelectSeq(updatedNodes, LAMBDA node : node.visible),
            links |-> SelectSeq(updatedLinks, LAMBDA link : link.visible)]

\* the effect on [searchTerm, selectedEntityTypes, minConnections]: the base
\* data is stored again with refreshed visible flags
VisibilityEffect(orig, searchTerm, selectedEntityTypes, minConnections) ==
  IF Len(orig.nodes) = 0 THEN orig
  ELSE LET updatedNodes == UpdatedNodes(orig, searchTerm, selectedEntityTypes, minConnections)
       IN  [nodes |-> updatedNodes, links |-> UpdatedLinks(orig, updatedNodes)]

\* nodes and links of getNetworkData with visible: true added
WithVisibility(nodes, links) ==
  [nodes |-> [k \in 1..Len(nodes) |->
                [id |-> nodes[k].id, name |-> nodes[k].name, type |-> nodes[k].type,
                 size |-> nodes[k].size, color |-> nodes[k].color,
                 connections |-> nodes[k].connections,
                 feature_ids |-> nodes[k].feature_ids, visible |-> TRUE]],
   links |-> [k \in 1..Len(links) |->
                [source |-> links[k].source, target |-> links[k].target,
                 strength |-> links[k].strength,
                 shared_feature_ids |-> links[k].shared_feature_ids, visible |-> TRUE]]]

\* ------------------------------------------------------------------------
\* services/entityConnectionService.ts
\* ------------------------------------------------------------------------
\* a private normalizeEntityType without the test for 'PLACE'
EntityConnectionService_normalizeEntityTypeNoPlace(entityType) ==
  IF IsFalsy(entityType) THEN "ORGANIZATION"
  ELSE LET type == Trim(ToUpperCase(entityType)) IN
       IF type = tPEOPLE THEN "PERSON"
       ELSE IF type = tLOCATIONS THEN "LOCATION"
       ELSE IF type = tORGANIZATIONS THEN "ORGANIZATION"
       ELSE IF \/ Includes(type, <<80, 69, 82, 83, 79, 78>>)
               \/ Includes(type, <<80, 69, 82>>)
               \/ type = tPEOPLE
            THEN "PERSON"
       ELSE IF \/ Includes(type, <<76, 79, 67, 65, 84, 73, 79, 78>>)
               \/ Includes(type, <<76, 79, 67>>)
               \/ type = tLOCATIONS
            THEN "LOCATION"
       ELSE IF \/ Includes(type, <<79, 82, 71>>)
               \/ Includes(type, <<67, 79, 77, 80, 65, 78, 89>>)
               \/ Includes(type, <<73, 78, 83, 84, 73, 84, 85, 84, 73, 79, 78>>)
               \/ type = tORGANIZATIONS
            THEN "ORGANIZATION"
       ELSE "ORGANIZATION"

\* EntityConnectionService.normalizeEntityType, the private copy the popup's
\* connections go through
EntityConnectionService_normalizeEntityType(entityType) ==
  IF IsFalsy(entityType) THEN "ORGANIZATION"
  ELSE LET type == Trim(ToUpperCase(entityType)) IN
       IF type = tPEOPLE THEN "PERSON"
       ELSE IF type = tLOCATIONS THEN "LOCATION"
       ELSE IF type = tORGANIZATIONS THEN "ORGANIZATION"
       ELSE IF \/ Includes(type, <<80, 69, 82, 83, 79, 78>>)
               \/ Includes(type, <<80, 69, 82>>)
               \/ type = tPEOPLE
            THEN "PERSON"
       ELSE IF \/ Includes(type, <<76, 79, 67, 65, 84, 73, 79, 78>>)
               \/ Includes(type, <<76, 79, 67>>)
               \/ Includes(type, <<80, 76, 65, 67, 69>>)
               \/ type = tLOCATIONS
            THEN "LOCATION"
       ELSE IF \/ Includes(type, <<79, 82, 71>>)
               \/ Includes(type, <<67, 79, 77, 80, 65, 78, 89>>)
               \/ Includes(type, <<73, 78, 83, 84, 73, 84, 85, 84, 73, 79, 78>>)
               \/ type = tORGANIZATIONS
            THEN "ORGANIZATION"
       ELSE "ORGANIZATION"

\* { people: [], locations: [], organizations: [] }, and the popup's
\* connections before the call has resolved
EmptyConnections == [people |-> <<>>, locations |-> <<>>, organizations |-> <<>>]

NotLoaded == [loaded |-> FALSE, connections |-> EmptyConnections]

\* step 1: the feature_id of every row of the entity
FeatureIdsOf(rows, entityName) ==
  {rows[i].feature_id : i \in {j \in 1..Len(rows) : rows[j].entity_name = entityName}}

\* step 2: the rows of those features that are not the entity's, in id order
CoOccurringEntities(rows, entityName) ==
  SelectSeq(rows, LAMBDA row : /\ row.feature_id \in FeatureIdsOf(rows, entityName)
                               /\ row.entity_name # entityName)

\* step 3: entityCounts, a Map in insertion order, as a sequence of
\* [entityName, entityType, count]
RECURSIVE EntityCountsFrom(_, _)
EntityCountsFrom(rest, acc) ==
  IF rest = <<>> THEN acc
  ELSE LET entity == Head(rest)
           at == IndexOf(acc, LAMBDA c : c.entityName = entity.entity_name)
       IN  EntityCountsFrom(Tail(rest),
             IF at # 0
             THEN [acc EXCEPT ![at].count = @ + 1]
             ELSE Append(acc, [entityName |-> entity.entity_name,
                               entityType |-> entity.entity_type,
                               count |-> 1]))

\* step 4: the entries with their normalized type, sorted by count
SortedConnections(coOccurringEntities) ==
  LET entityCounts == EntityCountsFrom(coOccurringEntities, <<>>)
      mapped == [i \in 1..Len(entityCounts) |->
                   [entityName |-> entityCounts[i].entityName,
                    entityType |-> EntityConnectionService_normalizeEntityType(
                                     entityCounts[i].entityType),
                    coOccurrenceCount |-> entityCounts[i].count]]
  IN  SortDesc(mapped, LAMBDA c : c.coOccurrenceCount)

\* EntityConnectionService.getTopConnections when no query fails
getTopConnections(rows, entityName) ==
  IF FeatureIdsOf(rows, entityName) = {} THEN EmptyConnections
  ELSE IF CoOccurringEntities(rows, entityName) = <<>> THEN EmptyConnections
  ELSE LET sortedConnections == SortedConnections(CoOccurringEntities(rows, entityName))
       IN  [people |-> SelectSeq(sortedConnections, LAMBDA c : c.entityType = "PERSON"),
            locations |-> SelectSeq(sortedConnections, LAMBDA c : c.entityType = "LOCATION"),
            organizations |->
              SelectSeq(sortedConnections, LAMBDA c : c.entityType = "ORGANIZATION")]

\* ------------------------------------------------------------------------
\* the static variant of ForceGraph2D: createStaticLayout
\* ------------------------------------------------------------------------
\* nodeList.length <= 50, scaled from 50 nodes to the node lists of the model
CircleMaxNodes == 2

\* nodeList.length <= 200, scaled from 200 nodes
GridMaxNodes == 4

\* attempts < 100, scaled from 100 attempts
MaxAttempts == 2

\* the props before the component is rendered, and stableNodes before its
\* memo has run
NoProps == [nodes |-> <<>>, graphState |-> [set |-> FALSE, nodePositions |-> <<>>]]

NotLaidOut == [done |-> FALSE, nodes |-> <<>>]

\* values of (Math.random() * (width - 100) + 50, Math.random() * (height - 100) + 50)
\* for width = 800 and height = 600: two points closer than minDistance and
\* one far from them
RandomPoints == {[x |-> 50, y |-> 50], [x |-> 70, y |-> 50], [x |-> 700, y |-> 500]}

\* a cached branch that returns the nodes of the cache only
CachedLayoutCachedOnly(nodeList, nodePositions) ==
  {[k \in 1..Len(cachedNodes) |->
      [id |-> cachedNodes[k].id,
       x |-> nodePositions[cachedNodes[k].id].x, y |-> nodePositions[cachedNodes[k].id].y,
       fx |-> nodePositions[cachedNodes[k].id].x, fy |-> nodePositions[cachedNodes[k].id].y]] :
     cachedNodes \in {SelectSeq(nodeList, LAMBDA node : node.id \in DOMAIN nodePositions)}}

\* the cached branch: a node of the cache is put and pinned at its cached
\* place; any other gets a random place and the fx, fy of the node it came
\* as, which has no x and no y yet
CachedLayout(nodeList, nodePositions) ==
  {[k \in 1..Len(nodeList) |->
      IF nodeList[k].id \in DOMAIN nodePositions
      THEN [id |-> nodeList[k].id,
            x |-> nodePositions[nodeList[k].id].x, y |-> nodePositions[nodeList[k].id].y,
            fx |-> nodePositions[nodeList[k].id].x, fy |-> nodePositions[nodeList[k].id].y]
      ELSE [id |-> nodeList[k].id, x |-> random[k].x, y |-> random[k].y,
            fx |-> "undefined", fy |-> "undefined"]] :
     random \in [1..Len(nodeList) -> RandomPoints]}

\* method 1, the circle: the angle index / length of a turn is taken in
\* twelfths of a turn, Math.cos and Math.sin to three decimals, the
\* coordinates in whole pixels
CircleLayout(nodeList) ==
  LET centerX == 800 \div 2
      centerY == 600 \div 2
      radius == (Min2(800, 600) * 3) \div 10
      cos == <<1000, 866, 500, 0, -500, -866, -1000, -866, -500, 0, 500, 866>>
  IN  [k \in 1..Len(nodeList) |->
         LET angle == (12 * (k - 1)) \div Len(nodeList)
             x == centerX + (radius * cos[angle + 1]) \div 1000
             y == centerY + (radius * cos[((angle + 9) % 12) + 1]) \div 1000
         IN  [id |-> nodeList[k].id, x |-> x, y |-> y, fx |-> x, fy |-> y]]

\* method 2, the grid, the coordinates in whole pixels
GridLayout(nodeList) ==
  LET length == Len(nodeList)
      cols == CHOOSE c \in 1..length : c * c >= length /\ (c - 1) * (c - 1) < length
      rows == (length + cols - 1) \div cols
  IN  [k \in 1..length |->
         LET col == (k - 1) % cols
             row == (k - 1) \div cols
             x == 50 + ((800 - 100) * (2 * col + 1)) \div (2 * cols)
             y == 50 + ((600 - 100) * (2 * row + 1)) \div (2 * rows)
         IN  [id |-> nodeList[k].id, x |-> x, y |-> y, fx |-> x, fy |-> y]]

\* the do-while of method 3 after `attempts` draws: a place is drawn again
\* while attempts are left and it is closer than minDistance = 40 to a place
\* of positions
RECURSIVE SpacedPlaces(_, _)
SpacedPlaces(positions, attempts) ==
  UNION {IF /\ attempts + 1 < MaxAttempts
            /\ \E pos \in positions :
                  (p.x - pos.x) * (p.x - pos.x) + (p.y - pos.y) * (p.y - pos.y) < 40 * 40
         THEN SpacedPlaces(positions, attempts + 1)
         ELSE {p} :
         p \in RandomPoints}

\* method 3, random but spaced: the results of the map over the rest of the
\* nodes, given the places taken so far
RECURSIVE SpacedLayoutFrom(_, _, _)
SpacedLayoutFrom(rest, positions, acc) ==
  IF rest = <<>> THEN {acc}
  ELSE UNION {SpacedLayoutFrom(Tail(rest), positions \cup {p},
                               Append(acc, [id |-> Head(rest).id, x |-> p.x, y |-> p.y,
                                            fx |-> p.x, fy |-> p.y])) :
              p \in SpacedPlaces(positions, 0)}

\* a createStaticLayout that takes the grid from 50 nodes on
createStaticLayoutGridFromLimit(nodeList, graphState) ==
  IF graphState.set /\ DOMAIN graphState.nodePositions # {}
  THEN CachedLayout(nodeList, graphState.nodePositions)
  ELSE IF Len(nodeList) < CircleMaxNodes THEN {CircleLayout(nodeList)}
  ELSE IF Len(nodeList) <= GridMaxNodes THEN {GridLayout(nodeList)}
  ELSE SpacedLayoutFrom(nodeList, {}, <<>>)

\* createStaticLayout with preserveLayout = true, as NetworkGraph renders the
\* component: the arrays it can return
createStaticLayout(nodeList, graphState) ==
  IF graphState.set /\ DOMAIN graphState.nodePositions # {}
  THEN CachedLayout(nodeList, graphState.nodePositions)
  ELSE IF Len(nodeList) <= CircleMaxNodes THEN {CircleLayout(nodeList)}
  ELSE IF Len(nodeList) <= GridMaxNodes THEN {GridLayout(nodeList)}
  ELSE SpacedLayoutFrom(nodeList, {}, <<>>)

\* ------------------------------------------------------------------------
\* State
\* ------------------------------------------------------------------------
VARIABLES
  table,          \* rows of feature_entities in id order
  svc,            \* position of EntityService.getNetworkData
  nodeEntities,   \* allEntities of createNetworkNodes
  relEntities,    \* allEntities of the last calculateEntityRelationships
  relationships,  \* result of the last calculateEntityRelationships
  netNodes,       \* nodes of getNetworkData
  netLinks,       \* links of getNetworkData
  svcError,       \* the error getNetworkData has thrown, "none" if none
  fetch,          \* the running call of fetchAllEntities, page by page
  typeInput,      \* the argument of a call of normalizeEntityType
  typeOutput,     \* what the call returned, "none" before the call
  connEntity,     \* EntityPopup: entityName, the argument of getTopConnections
  connResult,     \* EntityPopup: what getTopConnections resolved to (loaded = it has)
  staticProps,    \* static ForceGraph2D: the props nodes and graphState
  stableNodes,    \* static ForceGraph2D: stableNodes (done = the memo has run)
  loading,                \* NetworkGraph: loading
  originalNetworkData,    \* NetworkGraph: originalNetworkData
  searchTerm,             \* NetworkGraph: searchTerm
  selectedEntityTypes,    \* NetworkGraph: selectedEntityTypes
  minConnections,         \* NetworkGraph: minConnections
  selectedEntities,       \* NetworkGraph: the values of selectedEntities
  narrowed,               \* history: some filter since the load hid a base node
  error,                  \* NetworkGraph: error (FALSE = null)
  highlightedNode,        \* NetworkGraph: the id of highlightedNode (NoNode = null)
  selectedNode,           \* NetworkGraph: the id of selectedNode (NoNode = null)
  clickTrail,             \* history: the inputs to the click handlers since the page was idle
  restoreBackups,         \* pending 1 s timeouts of handleRestoreOriginal, each with its backup
  graphState,             \* NetworkGraph: graphState (set = not undefined)
  originalGraphCache,     \* NetworkGraph: originalGraphCache (set = not null)
  mounted,                \* ForceGraph2D is rendered (networkData has nodes)
  isInitialized,          \* ForceGraph2D: isInitialized.current
  initTimer,              \* ForceGraph2D: the 100 ms timeout that sets isInitialized
  gnodes,                 \* the node objects of the force graph: id -> [pos, pinned]
  simRunning,             \* the force simulation is ticking
  isDragging,             \* ForceGraph2D: isDragging
  draggedNode,            \* ForceGraph2D: draggedNode (live = still an object of the graph)
  restoreTimers,          \* pending 100 ms restore timeouts, each with its graphState
  saveTimer,              \* the 500 ms save timeout is pending
  intervalOn,             \* the 2 s save interval is installed
  kept,                   \* history: cached nodes kept visible by the last filter change, until the next save
  dropped                 \* history: the save of a released node and the filter applied after it

normVars == <<typeInput, typeOutput>>

connVars == <<connEntity, connResult>>

staticVars == <<staticProps, stableNodes>>

buildVars ==
  <<table, svc, nodeEntities, relEntities, relationships, netNodes, netLinks, svcError, fetch,
    normVars, connVars, staticVars>>

filterVars == <<searchTerm, selectedEntityTypes, minConnections, selectedEntities>>

pageVars == <<error, highlightedNode, selectedNode, clickTrail, restoreBackups>>

graphVars == <<loading, originalNetworkData, filterVars, narrowed, pageVars>>

layoutVars ==
  <<graphState, originalGraphCache, mounted, isInitialized, initTimer, gnodes, simRunning,
    isDragging, draggedNode, restoreTimers, saveTimer, intervalOn, kept, dropped>>

uiVars == <<graphVars, layoutVars>>

vars == <<buildVars, graphVars, layoutVars>>

Features == 1..NumFeatures

\* the entity_type stored with each name: "PERSON", "people", "LOCATION", "", "ORG"
RawTypeOf(name) ==
  IF name = nX THEN <<80, 69, 82, 83, 79, 78>>
  ELSE IF name = nXY THEN <<112, 101, 111, 112, 108, 101>>
  ELSE IF name = nY THEN <<76, 79, 67, 65, 84, 73, 79, 78>>
  ELSE IF name = nYZ THEN <<>>
  ELSE <<79, 82, 71>>

Mention(name, f) == [entity_name |-> name, entity_type |-> RawTypeOf(name), feature_id |-> f]

\* batchSize, scaled from 1000 rows to the tables of the model
BatchSize == 2

\* no call of fetchAllEntities has been made
NoFetch ==
  [stage |-> "idle", offset |-> 0, allEntities |-> <<>>, requests |-> <<>>, responses |-> 0,
   error |-> "none"]

\* fetchAllEntities entered: offset = 0, allEntities = [], the first page requested
FetchCall ==
  [stage |-> "waiting", offset |-> 0, allEntities |-> <<>>, requests |-> <<0>>, responses |-> 0,
   error |-> "none"]

\* a page request that also asks for the row after its last one
PageRowsInclusive(rows, offset) ==
  SubSeq(rows, offset + 1, IF offset + BatchSize + 1 <= Len(rows)
                           THEN offset + BatchSize + 1 ELSE Len(rows))

\* .range(offset, offset + batchSize - 1).order('id') on the rows of the table
PageRows(rows, offset) ==
  SubSeq(rows, offset + 1, IF offset + BatchSize <= Len(rows)
                           THEN offset + BatchSize ELSE Len(rows))

\* the body of the while loop once the awaited page has arrived without error
AfterPage(f, data) ==
  IF Len(data) = 0
  THEN [f EXCEPT !.stage = "returned", !.responses = @ + 1]
  ELSE IF Len(data) < BatchSize
       THEN [f EXCEPT !.stage = "returned", !.responses = @ + 1,
                      !.allEntities = @ \o data, !.offset = @ + BatchSize]
       ELSE [f EXCEPT !.responses = @ + 1,
                      !.allEntities = @ \o data, !.offset = @ + BatchSize,
                      !.requests = Append(@, f.offset + BatchSize)]

\* the while loop run to its end on an unchanging, error-free table
RECURSIVE FetchLoop(_, _)
FetchLoop(rows, f) ==
  IF f.stage # "waiting" THEN f ELSE FetchLoop(rows, AfterPage(f, PageRows(rows, f.offset)))

\* EntityFetcher.fetchAllEntities on an unchanging, error-free table
fetchAllEntities == FetchLoop(table, FetchCall).allEntities

\* highlightedNode = null, selectedNode = null
NoNode == <<>>

\* draggedNode = null
NoDraggedNode == [set |-> FALSE, id |-> <<>>, live |-> FALSE]

\* a map without entries
EmptyMap == [id \in {} |-> 0]

\* history: the node whose release, a pin that lasts until the next render, is followed
TrackedNode == nX

NothingDropped == [stage |-> "none", node |-> <<>>, pos |-> 0, base |-> <<>>]

\* the state of a freshly mounted NetworkGraph
GraphInit ==
  /\ loading = TRUE
  /\ originalNetworkData = [nodes |-> <<>>, links |-> <<>>]
  /\ searchTerm = <<>>
  /\ selectedEntityTypes = AllEntityTypes
  /\ minConnections = 1
  /\ selectedEntities = {}
  /\ narrowed = FALSE
  /\ error = FALSE
  /\ highlightedNode = NoNode
  /\ selectedNode = NoNode
  /\ clickTrail = <<>>
  /\ restoreBackups = {}
  /\ graphState = [set |-> FALSE, nodePositions |-> EmptyMap]
  /\ originalGraphCache = [set |-> FALSE, hasState |-> FALSE, state |-> EmptyMap]
  /\ mounted = FALSE
  /\ isInitialized = FALSE
  /\ initTimer = FALSE
  /\ gnodes = EmptyMap
  /\ simRunning = FALSE
  /\ isDragging = FALSE
  /\ draggedNode = NoDraggedNode
  /\ restoreTimers = {}
  /\ saveTimer = FALSE
  /\ intervalOn = FALSE
  /\ kept = {}
  /\ dropped = NothingDropped

ServiceInit ==
  /\ svc = "idle"
  /\ nodeEntities = <<>>
  /\ relEntities = <<>>
  /\ relationships = <<>>
  /\ netNodes = <<>>
  /\ netLinks = <<>>
  /\ svcError = "none"
  /\ fetch = NoFetch
  /\ typeInput = <<>>
  /\ typeOutput = "none"
  /\ connEntity = NoNode
  /\ connResult = NotLoaded
  /\ staticProps = NoProps
  /\ stableNodes = NotLaidOut

BuildInit ==
  /\ table = <<>>
  /\ ServiceInit
  /\ GraphInit

\* a row is added to feature_entities before the page loads
InsertRow ==
  /\ svc = "idle"
  /\ Len(table) < MaxMentions
  /\ \E name \in EntityNames, f \in Features : table' = Append(table, Mention(name, f))
  /\ UNCHANGED <<svc, nodeEntities, relEntities, relationships, netNodes, netLinks>>
  /\ UNCHANGED <<svcError, fetch, normVars, connVars, staticVars, uiVars>>

\* createNetworkNodes up to its first await
NodesFetch ==
  /\ svc = "idle"
  /\ nodeEntities' = fetchAllEntities
  /\ svc' = "nodesFetched"
  /\ UNCHANGED <<table, relEntities, relationships, netNodes, netLinks>>
  /\ UNCHANGED <<svcError, fetch, normVars, connVars, staticVars, uiVars>>

\* createNetworkNodes from calculateEntityRelationships to its return
NodesBuild ==
  /\ svc = "nodesFetched"
  /\ relEntities' = fetchAllEntities
  /\ relationships' = calculateEntityRelationships(relEntities')
  /\ netNodes' = createNetworkNodes(nodeEntities, relationships')
  /\ svc' = "nodesBuilt"
  /\ UNCHANGED <<table, nodeEntities, netLinks>>
  /\ UNCHANGED <<svcError, fetch, normVars, connVars, staticVars, uiVars>>

\* createNetworkLinks and the return of getNetworkData
LinksBuild ==
  /\ svc = "nodesBuilt"
  /\ relEntities' = fetchAllEntities
  /\ relationships' = calculateEntityRelationships(relEntities')
  /\ netLinks' = createNetworkLinks(relationships')
  /\ svc' = "done"
  /\ UNCHANGED <<table, nodeEntities, netNodes>>
  /\ UNCHANGED <<svcError, fetch, normVars, connVars, staticVars, uiVars>>

BuildNext == InsertRow \/ NodesFetch \/ NodesBuild \/ LinksBuild

SpecBuild == BuildInit /\ [][BuildNext]_vars

\* ------------------------------------------------------------------------
\* EntityFetcher.fetchAllEntities page by page, inside getNetworkData
\* ------------------------------------------------------------------------
\* the errors a page request can come back with
Errors == {"network", "timeout"}

\* a getNetworkData whose catch block throws an error of its own
RethrownAsGeneric(err) == "generic"

\* catch (error) { console.error(...); throw error } of getNetworkData; the
\* callers between it and fetchAllEntities have no catch
Rethrown(err) == err

\* the caller of fetchAllEntities continues with the returned rows:
\* createNetworkNodes, calculateEntityRelationships called by it, or
\* calculateEntityRelationships called by createNetworkLinks
ReturnTo(allEntities) ==
  \/ /\ svc = "idle"
     /\ nodeEntities' = allEntities
     /\ svc' = "nodesFetched"
     /\ UNCHANGED <<relEntities, relationships, netNodes, netLinks>>
  \/ /\ svc = "nodesFetched"
     /\ relEntities' = allEntities
     /\ \E rels \in {calculateEntityRelationships(allEntities)} :
           /\ relationships' = rels
           /\ netNodes' = createNetworkNodes(nodeEntities, rels)
     /\ svc' = "nodesBuilt"
     /\ UNCHANGED <<nodeEntities, netLinks>>
  \/ /\ svc = "nodesBuilt"
     /\ relEntities' = allEntities
     /\ \E rels \in {calculateEntityRelationships(allEntities)} :
           /\ relationships' = rels
           /\ netLinks' = createNetworkLinks(rels)
     /\ svc' = "done"
     /\ UNCHANGED <<nodeEntities, netNodes>>

\* a call of fetchAllEntities up to its first await
FetchStart ==
  /\ svc \in {"idle", "nodesFetched", "nodesBuilt"}
  /\ fetch.stage # "waiting"
  /\ fetch' = FetchCall
  /\ UNCHANGED <<table, svc, nodeEntities, relEntities, relationships, netNodes, netLinks,
                 svcError, normVars, connVars, staticVars, uiVars>>

\* the awaited page arrives with data: the rest of the loop body, and after
\* the last page the return to the caller
PageResponse ==
  /\ fetch.stage = "waiting"
  /\ \E f \in {AfterPage(fetch, PageRows(table, fetch.offset))} :
        /\ fetch' = f
        /\ IF f.stage = "returned"
           THEN ReturnTo(f.allEntities)
           ELSE UNCHANGED <<svc, nodeEntities, relEntities, relationships, netNodes, netLinks>>
  /\ UNCHANGED <<table, svcError, normVars, connVars, staticVars, uiVars>>

\* the awaited page arrives with an error: throw error, through the callers
\* up to the catch of getNetworkData
PageError ==
  /\ fetch.stage = "waiting"
  /\ \E err \in Errors :
        /\ fetch' = [fetch EXCEPT !.stage = "thrown", !.responses = @ + 1, !.error = err]
        /\ svcError' = Rethrown(err)
  /\ svc' = "failed"
  /\ UNCHANGED <<table, nodeEntities, relEntities, relationships, netNodes, netLinks,
                 normVars, connVars, staticVars, uiVars>>

\* the rows the fetched tables are made of
FetchRows == {Mention(nX, 1), Mention(nY, 1), Mention(nZ, 2)}

\* the tables that are fetched: up to MaxMentions rows, in every order
FetchTables == UNION {[1..n -> FetchRows] : n \in 0..MaxMentions}

FetchInit ==
  /\ table \in FetchTables
  /\ ServiceInit
  /\ GraphInit

\* getNetworkData on an error-free table
FetchNext == FetchStart \/ PageResponse

\* what PageResponse does to the running call
PageArrives ==
  /\ fetch.stage = "waiting"
  /\ fetch' = AfterPage(fetch, PageRows(table, fetch.offset))

\* every page that is awaited arrives
SpecFetch == FetchInit /\ [][FetchNext]_vars /\ WF_fetch(PageArrives)

\* getNetworkData with page requests that can fail
FetchErrorNext == FetchStart \/ PageResponse \/ PageError

SpecFetchError == FetchInit /\ [][FetchErrorNext]_vars

\* ------------------------------------------------------------------------
\* getNetworkData while feature_entities changes
\* ------------------------------------------------------------------------
\* the rows the last pass of fetchAllEntities returned
LastFetched == IF svc = "nodesFetched" THEN nodeEntities ELSE relEntities

\* another client inserts a row between two passes; it gets the highest id
RowInserted ==
  /\ svc \in {"nodesFetched", "nodesBuilt"}
  /\ table = LastFetched
  /\ Len(table) < MaxMentions
  /\ \E row \in FetchRows : table' = Append(table, row)
  /\ UNCHANGED <<svc, nodeEntities, relEntities, relationships, netNodes, netLinks>>
  /\ UNCHANGED <<svcError, fetch, normVars, connVars, staticVars, uiVars>>

\* another client deletes a row between two passes
RowDeleted ==
  /\ svc \in {"nodesFetched", "nodesBuilt"}
  /\ table = LastFetched
  /\ \E k \in 1..Len(table) :
        table' = SubSeq(table, 1, k - 1) \o SubSeq(table, k + 1, Len(table))
  /\ UNCHANGED <<svc, nodeEntities, relEntities, relationships, netNodes, netLinks>>
  /\ UNCHANGED <<svcError, fetch, normVars, connVars, staticVars, uiVars>>

\* one call of getNetworkData with at most one change of the table between
\* two of its passes
ChangeNext == NodesFetch \/ NodesBuild \/ LinksBuild \/ RowInserted \/ RowDeleted

SpecChange == FetchInit /\ [][ChangeNext]_vars

\* ------------------------------------------------------------------------
\* EntityNormalizer.normalizeEntityType on its own
\* ------------------------------------------------------------------------
MaxFragments == 2

\* pieces of entity_type values: "Per", "son", "LOC", "ation", "Place", "oRg", "Company", "institution", "People", "locations", "ORGANIZATIONS", " ", "x", "s"
TypeFragments ==
  {<<80, 101, 114>>,
   <<115, 111, 110>>,
   <<76, 79, 67>>,
   <<97, 116, 105, 111, 110>>,
   <<80, 108, 97, 99, 101>>,
   <<111, 82, 103>>,
   <<67, 111, 109, 112, 97, 110, 121>>,
   <<105, 110, 115, 116, 105, 116, 117, 116, 105, 111, 110>>,
   <<80, 101, 111, 112, 108, 101>>,
   <<108, 111, 99, 97, 116, 105, 111, 110, 115>>,
   <<79, 82, 71, 65, 78, 73, 90, 65, 84, 73, 79, 78, 83>>,
   <<32>>,
   <<120>>,
   <<115>>}

RECURSIVE Concatenations(_)
Concatenations(n) ==
  IF n = 0 THEN {<<>>}
  ELSE Concatenations(n - 1)
         \cup {s \o fragment : s \in Concatenations(n - 1), fragment \in TypeFragments}

\* the arguments normalizeEntityType is called with: no string, or a string
\* of up to MaxFragments pieces
TypeInputs == {Missing} \cup Concatenations(MaxFragments)

NormalizeInit ==
  /\ typeInput \in TypeInputs
  /\ typeOutput = "none"
  /\ connEntity = NoNode
  /\ connResult = NotLoaded
  /\ staticProps = NoProps
  /\ stableNodes = NotLaidOut
  /\ table = <<>>
  /\ svc = "idle"
  /\ nodeEntities = <<>>
  /\ relEntities = <<>>
  /\ relationships = <<>>
  /\ netNodes = <<>>
  /\ netLinks = <<>>
  /\ svcError = "none"
  /\ fetch = NoFetch
  /\ GraphInit

\* the call
Normalize ==
  /\ typeOutput = "none"
  /\ typeOutput' = normalizeEntityType(typeInput)
  /\ UNCHANGED <<table, svc, nodeEntities, relEntities, relationships, netNodes, netLinks,
                 svcError, fetch, typeInput, connVars, staticVars, uiVars>>

SpecNormalize == NormalizeInit /\ [][Normalize]_vars

\* ------------------------------------------------------------------------
\* EntityPopup: the connections of the entity the popup shows
\* ------------------------------------------------------------------------
\* rows of the table at most, when the popup opens
MaxConnRows == 5

\* a row of feature_entities with the entity_type it was stored with
ConnRow(name, type, f) == [entity_name |-> name, entity_type |-> type, feature_id |-> f]

\* the popup's entity X in two features, four other entities stored as
\* PEOPLE in the first, and Y stored as LOCATIONS in the second
ConnRows ==
  {ConnRow(nX, tPEOPLE, 1), ConnRow(nX, tPEOPLE, 2),
   ConnRow(nY, tPEOPLE, 1), ConnRow(nY, tLOCATIONS, 2),
   ConnRow(nZ, tPEOPLE, 1), ConnRow(nXY, tPEOPLE, 1), ConnRow(nYZ, tPEOPLE, 1)}

\* tables of distinct rows in any id order
ConnTables ==
  UNION {{t \in [1..n -> ConnRows] : \A i, j \in 1..n : t[i] = t[j] => i = j} :
         n \in 0..MaxConnRows}

ConnInit ==
  /\ table \in ConnTables
  /\ connEntity = nX
  /\ connResult = NotLoaded
  /\ staticProps = NoProps
  /\ stableNodes = NotLaidOut
  /\ svc = "idle"
  /\ nodeEntities = <<>>
  /\ relEntities = <<>>
  /\ relationships = <<>>
  /\ netNodes = <<>>
  /\ netLinks = <<>>
  /\ svcError = "none"
  /\ fetch = NoFetch
  /\ typeInput = <<>>
  /\ typeOutput = "none"
  /\ GraphInit

\* fetchData of the popup's effect: getTopConnections resolves with its
\* result and setConnections stores it
TopConnections ==
  /\ ~connResult.loaded
  /\ connResult' = [loaded |-> TRUE, connections |-> getTopConnections(table, connEntity)]
  /\ UNCHANGED <<table, svc, nodeEntities, relEntities, relationships, netNodes, netLinks,
                 svcError, fetch, normVars, connEntity, staticVars, uiVars>>

\* the same when a query of getTopConnections fails: it resolves with the
\* empty lists
TopConnectionsFail ==
  /\ ~connResult.loaded
  /\ connResult' = [loaded |-> TRUE, connections |-> EmptyConnections]
  /\ UNCHANGED <<table, svc, nodeEntities, relEntities, relationships, netNodes, netLinks,
                 svcError, fetch, normVars, connEntity, staticVars, uiVars>>

ConnNext == TopConnections \/ TopConnectionsFail

SpecConnections == ConnInit /\ [][ConnNext]_vars

\* ------------------------------------------------------------------------
\* the static variant of ForceGraph2D: the memo of stableNodes
\* ------------------------------------------------------------------------
\* nodes given to the component at most
MaxLayoutNodes == 5

\* the node "A", "B", ... of a list
LayoutNode(k) == [id |-> <<64 + k>>]

\* graphState: none, an empty cache, or places cached for some of "A", "B"
\* and of a node "Z" that is not shown
StaticCaches ==
  {[set |-> FALSE, nodePositions |-> <<>>]}
    \cup {[set |-> TRUE, nodePositions |-> [id \in ids |-> [x |-> 100 + id[1], y |-> 200]]] :
           ids \in SUBSET {<<65>>, <<66>>, <<90>>}}

StaticInit ==
  /\ staticProps \in [nodes : {[k \in 1..n |-> LayoutNode(k)] : n \in 0..MaxLayoutNodes},
                       graphState : StaticCaches]
  /\ stableNodes = NotLaidOut
  /\ table = <<>>
  /\ svc = "idle"
  /\ nodeEntities = <<>>
  /\ relEntities = <<>>
  /\ relationships = <<>>
  /\ netNodes = <<>>
  /\ netLinks = <<>>
  /\ svcError = "none"
  /\ fetch = NoFetch
  /\ typeInput = <<>>
  /\ typeOutput = "none"
  /\ connEntity = NoNode
  /\ connResult = NotLoaded
  /\ GraphInit

\* the memo of stableNodes runs createStaticLayout on the nodes
StableNodesMemo ==
  /\ ~stableNodes.done
  /\ \E result \in createStaticLayout(staticProps.nodes, staticProps.graphState) :
        stableNodes' = [done |-> TRUE, nodes |-> result]
  /\ UNCHANGED <<table, svc, nodeEntities, relEntities, relationships, netNodes, netLinks,
                 svcError, fetch, normVars, connVars, staticProps, uiVars>>

SpecStatic == StaticInit /\ [][StableNodesMemo]_vars

\* ------------------------------------------------------------------------
\* NetworkGraph: the load and the filter setters, as inputs of networkData
\* ------------------------------------------------------------------------
ScenarioA == <<Mention(nX, 1), Mention(nY, 1), Mention(nX, 2), Mention(nZ, 2)>>

\* "X|Y" and "Y|Z" share feature 1, "Z" is alone in feature 2
ScenarioMixed == <<Mention(nXY, 1), Mention(nYZ, 1), Mention(nZ, 2)>>

\* the tables the filters are tried on: every prefix of the two scenarios
FilterTables ==
  {SubSeq(ScenarioA, 1, n) : n \in 0..Len(ScenarioA)}
    \cup {SubSeq(ScenarioMixed, 1, n) : n \in 0..Len(ScenarioMixed)}

\* search inputs: "", "x", "Y"
SearchTerms == {<<>>, <<120>>, <<89>>}

MaxMinConnections == 2

BaseNames(orig) == {orig.nodes[k].name : k \in 1..Len(orig.nodes)}

VisibleNames(data) == {data.nodes[k].id : k \in 1..Len(data.nodes)}

\* what NetworkGraph passes to the graph under the current filters
CurrentData ==
  networkData(originalNetworkData, searchTerm, selectedEntityTypes, minConnections,
              selectedEntities)

FilterInit ==
  /\ table \in FilterTables
  /\ ServiceInit
  /\ GraphInit

\* ------------------------------------------------------------------------
\* ForceGraph2D: the size a node is drawn with
\* ------------------------------------------------------------------------
\* nodes.length < 20, scaled from 20 nodes to the graphs of the model
SmallGraphNodes == 2

\* Math.max(...nodes.map(n => n.connections), 1)
RECURSIVE MaxConnectionsFrom(_, _)
MaxConnectionsFrom(nodes, acc) ==
  IF nodes = <<>> THEN acc
  ELSE MaxConnectionsFrom(Tail(nodes), Max2(acc, Head(nodes).connections))

\* graphStats, memoized on the nodes the component is given
graphStats(nodes) ==
  IF Len(nodes) = 0 THEN [maxConnections |-> 1, maxSize |-> 90, baseSize |-> 30]
  ELSE [maxConnections |-> MaxConnectionsFrom(nodes, 1), maxSize |-> 90, baseSize |-> 30]

\* the entry of sizeCache for a node; maxConnections is at most 6 in the
\* graphs of the model and divides maxSize - baseSize, so the quotient is exact
sizeCache(nodes, node) ==
  LET stats == graphStats(nodes) IN
  IF stats.maxConnections = 0 THEN stats.baseSize
  ELSE stats.baseSize
         + (node.connections * (stats.maxSize - stats.baseSize)) \div stats.maxConnections

\* size of renderNodeCanvas for a node of the nodes the component is given
RenderedSize(nodes, node) ==
  IF Len(nodes) < SmallGraphNodes THEN 18 ELSE sizeCache(nodes, node)

\* ------------------------------------------------------------------------
\* ForceGraph2D: what a render of NetworkGraph does to the graph component
\* ------------------------------------------------------------------------
NumPositions == 2

MaxPendingRestores == 1

\* the coordinates a node can have
Positions == 1..NumPositions

\* nodesWithPositions as the force graph receives it: a node with a cached
\* position gets that x, y; any other node is placed by the force graph; the
\* objects are new and none is pinned
Placements(data, gs) ==
  {g \in [VisibleNames(data) -> [pos : Positions, pinned : {FALSE}]] :
     \A id \in VisibleNames(data) :
        (gs.set /\ id \in DOMAIN gs.nodePositions) => g[id].pos = gs.nodePositions[id]}

\* the 100 ms restore timeout: cached x, y are written to the nodes the graph
\* has now; no node is pinned
Restored(g, nodes) ==
  [id \in DOMAIN nodes |->
     IF id \in DOMAIN g THEN [nodes[id] EXCEPT !.pos = g[id]] ELSE nodes[id]]

\* the test of the layout effect for scheduling a restore
RestoreDue(data, gs) ==
  LET cachedNodeCount == IF gs.set THEN Cardinality(DOMAIN gs.nodePositions) ELSE 0
      currentNodeCount == Len(data.nodes)
  IN  gs.set /\ cachedNodeCount > 0 /\ 2 * cachedNodeCount >= currentNodeCount

\* networkData has no node: NetworkGraph renders no ForceGraph2D, and the
\* cleanups of the unmounted instance clear its timers
Unmount ==
  /\ mounted' = FALSE
  /\ isInitialized' = FALSE
  /\ initTimer' = FALSE
  /\ gnodes' = EmptyMap
  /\ simRunning' = FALSE
  /\ isDragging' = FALSE
  /\ draggedNode' = NoDraggedNode
  /\ restoreTimers' = {}
  /\ saveTimer' = FALSE
  /\ intervalOn' = FALSE

\* a new ForceGraph2D: the layout effect finds isInitialized false and sets
\* the 100 ms timeout; the save effects return early
Mount(data, gs) ==
  /\ mounted' = TRUE
  /\ isInitialized' = FALSE
  /\ initTimer' = TRUE
  /\ gnodes' \in Placements(data, gs)
  /\ simRunning' = TRUE
  /\ isDragging' = FALSE
  /\ draggedNode' = NoDraggedNode
  /\ restoreTimers' = {}
  /\ saveTimer' = FALSE
  /\ intervalOn' = FALSE

\* new nodes for a mounted ForceGraph2D: the graph restarts its simulation on
\* the new objects, then the effects on [nodes, links, graphState] run;
\* graph.d3Force().stop() either stops the simulation or throws
Update(data, gs, saveGraphStateChanged) ==
  /\ gnodes' \in Placements(data, gs)
  /\ simRunning' \in (IF isInitialized THEN BOOLEAN ELSE {TRUE})
  /\ draggedNode' = [draggedNode EXCEPT !.live = FALSE]
  /\ restoreTimers' = IF isInitialized /\ RestoreDue(data, gs)
                      THEN restoreTimers \cup {gs.nodePositions}
                      ELSE restoreTimers
  /\ Cardinality(restoreTimers') <= MaxPendingRestores
  /\ initTimer' = (initTimer \/ ~isInitialized)
  /\ saveTimer' = isInitialized
  /\ intervalOn' = IF saveGraphStateChanged THEN isInitialized ELSE intervalOn
  /\ UNCHANGED <<mounted, isInitialized, isDragging>>

\* the render that follows a change of networkData or graphState
Render(saveGraphStateChanged) ==
  \E data \in {CurrentData'} :
     IF Len(data.nodes) = 0 THEN Unmount
     ELSE IF ~mounted THEN Mount(data, graphState')
     ELSE Update(data, graphState', saveGraphStateChanged)

\* history: the nodes with a cached position that the graph showed before the
\* filter change and shows after it
KeptAfterFilter ==
  kept' = IF mounted /\ graphState.set
          THEN (DOMAIN gnodes \cap DOMAIN graphState.nodePositions)
                 \cap VisibleNames(CurrentData')
          ELSE {}

\* history: a filter change after the save of a release, made while the node is
\* still at the drop position and cached there, is the applied filter; the
\* next filter change ends the record
DroppedAfterFilter ==
  dropped' = IF /\ dropped.stage = "saved"
                /\ dropped.node \in DOMAIN gnodes
                /\ gnodes[dropped.node].pos = dropped.pos
                /\ dropped.node \in DOMAIN graphState.nodePositions
                /\ graphState.nodePositions[dropped.node] = dropped.pos
             THEN [dropped EXCEPT !.stage = "filtered", !.base = filterVars]
             ELSE NothingDropped

\* a fetchNetworkData that reports an empty result as an error
LoadDataFlagsEmpty ==
  /\ loading
  /\ svc = "done"
  /\ originalNetworkData' = WithVisibility(netNodes, netLinks)
  /\ originalGraphCache' = [set |-> TRUE, hasState |-> FALSE, state |-> EmptyMap]
  /\ loading' = FALSE
  /\ error' = (Len(netNodes) = 0)
  /\ UNCHANGED <<buildVars, filterVars, narrowed, highlightedNode, selectedNode, clickTrail,
                 restoreBackups, graphState, kept, dropped>>
  /\ Render(TRUE)

\* the success path of fetchNetworkData once getNetworkData has resolved
LoadData ==
  /\ loading
  /\ svc = "done"
  /\ originalNetworkData' = WithVisibility(netNodes, netLinks)
  /\ originalGraphCache' = [set |-> TRUE, hasState |-> FALSE, state |-> EmptyMap]
  /\ loading' = FALSE
  /\ UNCHANGED <<buildVars, filterVars, narrowed, pageVars, graphState, kept, dropped>>
  /\ Render(TRUE)

\* the history of hidden nodes after a filter input changes
NarrowedAfter ==
  narrowed' = (narrowed \/ VisibleNames(CurrentData)' # BaseNames(originalNetworkData'))

\* a setter of search, types or minimum connections, with the effect that
\* refreshes the visible flags
FilterChanged ==
  /\ ~loading
  /\ ~error
  /\ originalNetworkData' =
       VisibilityEffect(originalNetworkData, searchTerm', selectedEntityTypes', minConnections')
  /\ NarrowedAfter
  /\ UNCHANGED <<buildVars, loading, pageVars, graphState, originalGraphCache>>
  /\ KeptAfterFilter
  /\ DroppedAfterFilter
  /\ Render(FALSE)

SetSearchTerm ==
  /\ \E term \in SearchTerms : term # searchTerm /\ searchTerm' = term
  /\ UNCHANGED <<selectedEntityTypes, minConnections, selectedEntities>>
  /\ FilterChanged

\* NetworkFilters.handleEntityTypeToggle
ToggleEntityType ==
  /\ \E type \in AllEntityTypes :
        selectedEntityTypes' = IF type \in selectedEntityTypes
                               THEN selectedEntityTypes \ {type}
                               ELSE selectedEntityTypes \cup {type}
  /\ UNCHANGED <<searchTerm, minConnections, selectedEntities>>
  /\ FilterChanged

\* the minimum-connections slider
SetMinConnections ==
  /\ \E min \in 1..MaxMinConnections : min # minConnections /\ minConnections' = min
  /\ UNCHANGED <<searchTerm, selectedEntityTypes, selectedEntities>>
  /\ FilterChanged

\* selectedEntities is not in the dependencies of the visible-flag effect
SetSelectedEntities ==
  /\ ~loading
  /\ ~error
  /\ \E sel \in SUBSET BaseNames(originalNetworkData) :
        sel # selectedEntities /\ selectedEntities' = sel
  /\ UNCHANGED <<searchTerm, selectedEntityTypes, minConnections, originalNetworkData>>
  /\ NarrowedAfter
  /\ UNCHANGED <<buildVars, loading, pageVars, graphState, originalGraphCache>>
  /\ KeptAfterFilter
  /\ DroppedAfterFilter
  /\ Render(FALSE)

FilterNext ==
  \/ NodesFetch \/ NodesBuild \/ LinksBuild \/ LoadData
  \/ SetSearchTerm \/ ToggleEntityType \/ SetMinConnections \/ SetSelectedEntities

SpecFilter == FilterInit /\ [][FilterNext]_vars

\* ------------------------------------------------------------------------
\* ForceGraph2D: timers, simulation, drag and the graph-state cache
\* ------------------------------------------------------------------------
\* X and Y share feature 1
LayoutTables == {SubSeq(ScenarioA, 1, 2)}

LayoutInit ==
  /\ table \in LayoutTables
  /\ ServiceInit
  /\ GraphInit

\* the 100 ms timeout of the layout effect
InitTimeout ==
  /\ mounted
  /\ initTimer
  /\ isInitialized' = TRUE
  /\ initTimer' = FALSE
  /\ UNCHANGED <<buildVars, graphVars, graphState, originalGraphCache, mounted, gnodes,
                 simRunning, isDragging, draggedNode, restoreTimers, saveTimer, intervalOn,
                 kept, dropped>>

\* one step of the force simulation moves a node that is neither pinned nor
\* held by the pointer
Tick ==
  /\ mounted
  /\ simRunning
  /\ \E id \in DOMAIN gnodes, p \in Positions :
        /\ ~gnodes[id].pinned
        /\ ~(isDragging /\ draggedNode.live /\ draggedNode.id = id)
        /\ p # gnodes[id].pos
        /\ gnodes' = [gnodes EXCEPT ![id].pos = p]
        /\ dropped' = IF dropped.stage = "saved" /\ dropped.node = id
                      THEN NothingDropped
                      ELSE dropped
  /\ UNCHANGED <<buildVars, graphVars, graphState, originalGraphCache, mounted, isInitialized,
                 initTimer, simRunning, isDragging, draggedNode, restoreTimers, saveTimer,
                 intervalOn, kept>>

\* the simulation ends after cooldownTicks
Cooldown ==
  /\ mounted
  /\ simRunning
  /\ simRunning' = FALSE
  /\ UNCHANGED <<buildVars, graphVars, graphState, originalGraphCache, mounted, isInitialized,
                 initTimer, gnodes, isDragging, draggedNode, restoreTimers, saveTimer,
                 intervalOn, kept, dropped>>

\* handleNodeDrag, called by the graph with the node under the pointer at p
handleNodeDrag ==
  /\ mounted
  /\ \E id \in DOMAIN gnodes, p \in Positions :
        \/ /\ ~isDragging
           /\ isDragging' = TRUE
           /\ draggedNode' = [set |-> TRUE, id |-> id, live |-> TRUE]
           /\ gnodes' = [gnodes EXCEPT ![id] = [pos |-> p, pinned |-> FALSE]]
           /\ simRunning' = TRUE
           /\ kept' = kept \ {id}
           /\ dropped' = NothingDropped
        \/ /\ isDragging
           /\ draggedNode.live
           /\ draggedNode.id = id
           /\ p # gnodes[id].pos
           /\ gnodes' = [gnodes EXCEPT ![id].pos = p]
           /\ UNCHANGED <<isDragging, draggedNode, simRunning, kept, dropped>>
  /\ UNCHANGED <<buildVars, graphVars, graphState, originalGraphCache, mounted, isInitialized,
                 initTimer, restoreTimers, saveTimer, intervalOn>>

\* handleMouseUp: the dragged node object is pinned where it is; if a render
\* has replaced the node objects since, the graph's node is not that object
handleMouseUp ==
  /\ mounted
  /\ isDragging
  /\ draggedNode.set
  /\ isDragging' = FALSE
  /\ draggedNode' = NoDraggedNode
  /\ gnodes' = IF draggedNode.live
               THEN [gnodes EXCEPT ![draggedNode.id].pinned = TRUE]
               ELSE gnodes
  /\ simRunning' \in {simRunning, FALSE}
  /\ UNCHANGED <<buildVars, graphVars, graphState, originalGraphCache, mounted, isInitialized,
                 initTimer, restoreTimers, saveTimer, intervalOn, kept, dropped>>

\* the nodePositions map built by saveGraphState: the nodes the graph holds now
SavedPositions(nodes) ==
  [id \in DOMAIN nodes |-> nodes[id].pos]

\* a handleGraphStateChange that caches every new state as the original one
OriginalCacheLatest(cache, newState) ==
  IF cache.set
  THEN [cache EXCEPT !.hasState = TRUE, !.state = newState.nodePositions]
  ELSE cache

\* handleGraphStateChange: the state is cached as the original one if the
\* cache exists and holds no state yet
OriginalCacheAfter(cache, newState) ==
  IF cache.set /\ ~cache.hasState
  THEN [cache EXCEPT !.hasState = TRUE, !.state = newState.nodePositions]
  ELSE cache

\* saveGraphState, handleGraphStateChange and the render that follows
saveGraphState ==
  /\ mounted
  /\ graphState' = [set |-> TRUE,
                    nodePositions |-> SavedPositions(gnodes)]
  /\ originalGraphCache' = OriginalCacheAfter(originalGraphCache, graphState')
  /\ dropped' = IF TrackedNode \in DOMAIN gnodes /\ gnodes[TrackedNode].pinned
                THEN [stage |-> "saved", node |-> TrackedNode,
                      pos |-> gnodes[TrackedNode].pos, base |-> filterVars]
                ELSE dropped
  /\ kept' = {}
  /\ UNCHANGED <<buildVars, graphVars>>
  /\ \E data \in {CurrentData} :
        Update(data, graphState', originalGraphCache' # originalGraphCache)

\* the 500 ms timeout set when nodes or links change
SaveTimeout ==
  /\ saveTimer
  /\ saveGraphState

\* the 2 s interval
IntervalSave ==
  /\ intervalOn
  /\ saveGraphState

\* the 100 ms timeout that re-applies the graphState it was scheduled with
RestoreTimeout ==
  /\ mounted
  /\ \E g \in restoreTimers :
        /\ gnodes' = Restored(g, gnodes)
        /\ restoreTimers' = restoreTimers \ {g}
  /\ simRunning' \in BOOLEAN
  /\ UNCHANGED <<buildVars, graphVars, graphState, originalGraphCache, mounted, isInitialized,
                 initTimer, isDragging, draggedNode, saveTimer, intervalOn, kept, dropped>>

Next ==
  \/ NodesFetch \/ NodesBuild \/ LinksBuild \/ LoadData
  \/ ToggleEntityType \/ SetMinConnections
  \/ InitTimeout \/ Tick \/ Cooldown
  \/ handleNodeDrag \/ handleMouseUp
  \/ SaveTimeout \/ IntervalSave \/ RestoreTimeout

Spec == LayoutInit /\ [][Next]_vars

\* the graph when no filter is changed while the pointer holds a node: drags
\* and releases are the user's only inputs during a drag, and the simulation
\* and the timers of the component go on
DragNext ==
  \/ NodesFetch \/ NodesBuild \/ LinksBuild \/ LoadData
  \/ (~isDragging /\ ToggleEntityType) \/ (~isDragging /\ SetMinConnections)
  \/ InitTimeout \/ Tick \/ Cooldown
  \/ handleNodeDrag \/ handleMouseUp
  \/ SaveTimeout \/ IntervalSave \/ RestoreTimeout

SpecDrag == LayoutInit /\ [][DragNext]_vars

\* ------------------------------------------------------------------------
\* NetworkGraph: reset layout and restore original
\* ------------------------------------------------------------------------
MaxPendingBackups == 1

\* handleResetLayout: graphState becomes undefined; its timeout does nothing
handleResetLayout ==
  /\ ~loading
  /\ ~error
  /\ graphState' = [set |-> FALSE, nodePositions |-> EmptyMap]
  /\ kept' = {}
  /\ dropped' = NothingDropped
  /\ UNCHANGED <<buildVars, graphVars, originalGraphCache>>
  /\ Render(FALSE)

\* handleRestoreOriginal: graphState becomes the cached original state, the
\* data of the cache are shown with every flag true, and a 1 s timeout is
\* set that stores the former originalNetworkData again
handleRestoreOriginal ==
  /\ ~loading
  /\ ~error
  /\ originalGraphCache.set
  /\ originalGraphCache.hasState
  /\ graphState' = [set |-> TRUE, nodePositions |-> originalGraphCache.state]
  /\ originalNetworkData' = WithVisibility(netNodes, netLinks)
  /\ restoreBackups' = restoreBackups \cup {originalNetworkData}
  /\ Cardinality(restoreBackups') <= MaxPendingBackups
  /\ kept' = {}
  /\ dropped' = NothingDropped
  /\ UNCHANGED <<buildVars, loading, filterVars, narrowed, error, highlightedNode,
                 selectedNode, clickTrail, originalGraphCache>>
  /\ Render(FALSE)

\* the 1 s timeout of handleRestoreOriginal
RestoreOriginalTimeout ==
  /\ \E backup \in restoreBackups :
        /\ originalNetworkData' = backup
        /\ restoreBackups' = restoreBackups \ {backup}
  /\ UNCHANGED <<buildVars, loading, filterVars, narrowed, error, highlightedNode,
                 selectedNode, clickTrail, graphState, originalGraphCache, kept, dropped>>
  /\ Render(FALSE)

\* the page with its buttons and timers, the pointer staying off the nodes
CacheNext ==
  \/ NodesFetch \/ NodesBuild \/ LinksBuild \/ LoadData
  \/ ToggleEntityType \/ SetMinConnections
  \/ InitTimeout \/ Tick \/ Cooldown
  \/ SaveTimeout \/ IntervalSave \/ RestoreTimeout
  \/ handleResetLayout \/ handleRestoreOriginal \/ RestoreOriginalTimeout

SpecCache == LayoutInit /\ [][CacheNext]_vars

\* ------------------------------------------------------------------------
\* NetworkGraph: node clicks, the highlight and the detail popup
\* ------------------------------------------------------------------------
\* a handleNodeClick that keeps the clicked node highlighted when the popup opens
HighlightAfterClickKept(highlighted, node) == node

\* a handleNodeClick that leaves an existing highlight where it is
HighlightAfterClickSticky(highlighted, node) ==
  IF highlighted = NoNode THEN node ELSE highlighted

\* highlightedNode after handleNodeClick(node)
HighlightAfterClick(highlighted, node) ==
  IF highlighted # NoNode /\ highlighted = node THEN NoNode ELSE node

\* a handleNodeClick that opens the popup whenever some node is highlighted
SelectedAfterClickAnyHighlight(highlighted, node) ==
  IF highlighted # NoNode THEN node ELSE NoNode

\* selectedNode after handleNodeClick(node)
SelectedAfterClick(highlighted, node) ==
  IF highlighted # NoNode /\ highlighted = node THEN node ELSE NoNode

\* a click, a close of the popup, a clear of the highlight
ClickOn(node) == [op |-> "click", node |-> node]

ClosePopup == [op |-> "close", node |-> NoNode]

ClearHighlight == [op |-> "clear", node |-> NoNode]

MaxTrail == 3

\* history: the inputs since the page was idle (no highlight, no popup), as
\* far as MaxTrail inputs
TrailAfter(input) ==
  clickTrail' = IF highlightedNode = NoNode /\ selectedNode = NoNode THEN <<input>>
                ELSE IF clickTrail # <<>> /\ Len(clickTrail) < MaxTrail
                     THEN Append(clickTrail, input)
                     ELSE <<>>

\* a click on a node the graph shows
handleNodeClick ==
  /\ ~loading /\ ~error /\ mounted
  /\ \E node \in DOMAIN gnodes :
        /\ highlightedNode' = HighlightAfterClick(highlightedNode, node)
        /\ selectedNode' = SelectedAfterClick(highlightedNode, node)
        /\ TrailAfter(ClickOn(node))
  /\ UNCHANGED <<buildVars, loading, originalNetworkData, filterVars, narrowed, error,
                 restoreBackups, layoutVars>>

\* the "Clear" button shown while a node is highlighted
handleClearHighlight ==
  /\ ~loading /\ ~error /\ highlightedNode # NoNode
  /\ highlightedNode' = NoNode
  /\ TrailAfter(ClearHighlight)
  /\ UNCHANGED <<buildVars, loading, originalNetworkData, filterVars, narrowed, error,
                 selectedNode, restoreBackups, layoutVars>>

\* onClose of the detail popup shown while selectedNode is set
handleClosePopup ==
  /\ ~loading /\ ~error /\ selectedNode # NoNode
  /\ selectedNode' = NoNode
  /\ TrailAfter(ClosePopup)
  /\ UNCHANGED <<buildVars, loading, originalNetworkData, filterVars, narrowed, error,
                 highlightedNode, restoreBackups, layoutVars>>

\* the loaded page with its type filters and the pointer clicking on nodes
ClickNext ==
  \/ NodesFetch \/ NodesBuild \/ LinksBuild \/ LoadData
  \/ ToggleEntityType
  \/ handleNodeClick \/ handleClearHighlight \/ handleClosePopup

SpecClick == LayoutInit /\ [][ClickNext]_vars

\* ------------------------------------------------------------------------
\* NetworkGraph: the load with a getNetworkData that can fail
\* ------------------------------------------------------------------------
\* a fetchNetworkData whose catch block leaves error null
LoadErrorUnflagged ==
  /\ loading
  /\ svc = "failed"
  /\ error' = FALSE
  /\ loading' = FALSE
  /\ UNCHANGED <<buildVars, originalNetworkData, filterVars, narrowed, highlightedNode,
                 selectedNode, clickTrail, restoreBackups, layoutVars>>

\* the catch and finally blocks of fetchNetworkData once getNetworkData has
\* thrown; the page then renders the error view, without filters or graph
LoadError ==
  /\ loading
  /\ svc = "failed"
  /\ error' = TRUE
  /\ loading' = FALSE
  /\ UNCHANGED <<buildVars, originalNetworkData, filterVars, narrowed, highlightedNode,
                 selectedNode, clickTrail, restoreBackups, layoutVars>>

\* the page from its mount: the load page by page, its two outcomes, and the
\* filters of the loaded page
LoadNext ==
  \/ FetchStart \/ PageResponse \/ PageError
  \/ LoadData \/ LoadError
  \/ ToggleEntityType \/ SetMinConnections

SpecLoad == FilterInit /\ [][LoadNext]_vars

\* ------------------------------------------------------------------------
\* Properties of the graph builder
\* ------------------------------------------------------------------------
Calculated == svc \in {"nodesBuilt", "done"}

NamesIn(allEntities, f) ==
  {allEntities[i].entity_name : i \in {j \in 1..Len(allEntities) : allEntities[j].feature_id = f}}

\* the features in which both names are mentioned
SharedFeatures(allEntities, a, b) ==
  {f \in Features : a \in NamesIn(allEntities, f) /\ b \in NamesIn(allEntities, f)}

Choose2(k) == (k * (k - 1)) \div 2

\* some name is mentioned twice within one feature, next to another name
HasRepeatedMention(allEntities) ==
  \E i, j, k \in 1..Len(allEntities) :
     /\ i < j
     /\ allEntities[i] = allEntities[j]
     /\ allEntities[k].feature_id = allEntities[i].feature_id
     /\ allEntities[k].entity_name # allEntities[i].entity_name

\* C1: every emitted relationship has co_occurrence_count equal to the number
\* of distinct feature_ids in which both entities are mentioned, which is the
\* size of its shared_feature_ids, repeated mentions included.
C1_CountIsSharedFeatures ==
  Calculated =>
    \A k \in 1..Len(relationships) :
       /\ relationships[k].co_occurrence_count =
            Cardinality(SharedFeatures(relEntities, relationships[k].entity1,
                                       relationships[k].entity2))
       /\ relationships[k].co_occurrence_count =
            Cardinality(Range(relationships[k].shared_feature_ids))

\* C2: a feature naming k distinct entities causes exactly C(k,2) count
\* increments; a feature with 0 or 1 distinct names causes no increment and
\* appears in no relationship.
C2_IncrementsAreChoose2 ==
  Calculated =>
    \A f \in Features :
       LET k == Cardinality(NamesIn(relEntities, f)) IN
       /\ IncrementsOf(relEntities, f) = Choose2(k)
       /\ k <= 1 =>
            \A r \in 1..Len(relationships) :
               NumToString(f) \notin Range(relationships[r].shared_feature_ids)

\* the emitted relationships as a set, shared_feature_ids as a set
RelationshipSet(rels) ==
  {[entity1 |-> rels[k].entity1, entity2 |-> rels[k].entity2,
    co_occurrence_count |-> rels[k].co_occurrence_count,
    shared_feature_ids |-> Range(rels[k].shared_feature_ids)] : k \in 1..Len(rels)}

IndexPermutations(n) == {p \in [1..n -> 1..n] : \A i, j \in 1..n : p[i] = p[j] => i = j}

Permuted(s, p) == [i \in 1..Len(s) |-> s[p[i]]]

\* C3: the set of emitted relationships is the same for every permutation of
\* the fetched mention sequence.
C3_OrderIndependent ==
  Calculated =>
    \A p \in IndexPermutations(Len(relEntities)) :
       RelationshipSet(calculateEntityRelationships(Permuted(relEntities, p)))
         = RelationshipSet(relationships)

\* C4: every emitted relationship has entity1 < entity2 in string order (so
\* no self-pair), and no two emitted relationships have the same unordered
\* pair of entities.
C4_CanonicalPairs ==
  Calculated =>
    /\ \A k \in 1..Len(relationships) :
          StrLess(relationships[k].entity1, relationships[k].entity2)
    /\ \A k, m \in 1..Len(relationships) :
          {relationships[k].entity1, relationships[k].entity2}
            = {relationships[m].entity1, relationships[m].entity2} => k = m

\* a calculation over mentions in which a name is repeated within a feature
\* and a pair is met with its larger name first
C4_Witness ==
  /\ svc = "done"
  /\ Len(relationships) >= 2
  /\ HasRepeatedMention(relEntities)
  /\ \E i, j \in 1..Len(relEntities) :
        /\ i < j
        /\ relEntities[i].feature_id = relEntities[j].feature_id
        /\ StrLess(relEntities[j].entity_name, relEntities[i].entity_name)

\* the number of distinct other names sharing a feature with the name
DegreeOf(allEntities, name) ==
  Cardinality({m \in EntityNames \ {name} : SharedFeatures(allEntities, name, m) # {}})

\* C5: every built node has connections equal to its degree; Scenario A gives
\* X:2, Y:1, Z:1 with links (X,Y) and (X,Z) of strength 1 and no (Y,Z) link.
C5_ConnectionsAreDegree ==
  svc = "done" =>
    /\ \A k \in 1..Len(netNodes) :
          netNodes[k].connections = DegreeOf(table, netNodes[k].name)
    /\ table = ScenarioA =>
          /\ {<<netNodes[k].name, netNodes[k].connections>> : k \in 1..Len(netNodes)}
               = {<<nX, 2>>, <<nY, 1>>, <<nZ, 1>>}
          /\ {<<netLinks[k].source, netLinks[k].target, netLinks[k].strength>> :
                 k \in 1..Len(netLinks)}
               = {<<nX, nY, 1>>, <<nX, nZ, 1>>}

\* ------------------------------------------------------------------------
\* Properties of the visible subset
\* ------------------------------------------------------------------------
SameLetter(c, d) ==
  \/ c = d
  \/ c >= 65 /\ c <= 90 /\ d = c + 32
  \/ d >= 65 /\ d <= 90 /\ c = d + 32

\* sub occurs in s, letter case ignored
ContainsIgnoringCase(s, sub) ==
  \E k \in 0..(Len(s) - Len(sub)) : \A j \in 1..Len(sub) : SameLetter(s[k + j], sub[j])

VisibleLinks(data) == {<<data.links[k].source, data.links[k].target>> : k \in 1..Len(data.links)}

BaseLinks(orig) == {<<orig.links[k].source, orig.links[k].target>> : k \in 1..Len(orig.links)}

\* C6: with no entity selected, networkData contains a base node iff (the
\* search term is empty or occurs in the name, case ignored) and its type is
\* selected and its connections reach minConnections; it contains a base
\* link iff both its endpoints are contained nodes. minConnections = 2 on
\* Scenario A yields the nodes {X} and no links.
C6_FilterRule ==
  (~loading /\ selectedEntities = {}) =>
    /\ \A k \in 1..Len(originalNetworkData.nodes) :
          LET node == originalNetworkData.nodes[k] IN
          (node.id \in VisibleNames(CurrentData)) <=>
             /\ (searchTerm = <<>> \/ ContainsIgnoringCase(node.name, searchTerm))
             /\ node.type \in selectedEntityTypes
             /\ node.connections >= minConnections
    /\ Len(CurrentData.nodes) = Cardinality(VisibleNames(CurrentData))
    /\ \A k \in 1..Len(originalNetworkData.links) :
          LET link == originalNetworkData.links[k] IN
          (<<link.source, link.target>> \in VisibleLinks(CurrentData)) <=>
             (link.source \in VisibleNames(CurrentData)
                /\ link.target \in VisibleNames(CurrentData))
    /\ Len(CurrentData.links) = Cardinality(VisibleLinks(CurrentData))
    /\ (table = ScenarioA /\ minConnections = 2 /\ searchTerm = <<>>
          /\ selectedEntityTypes = AllEntityTypes) =>
          (VisibleNames(CurrentData) = {nX} /\ CurrentData.links = <<>>)

\* a search in the other letter case that keeps some nodes and drops others,
\* and with them a link
C6_Witness ==
  /\ ~loading
  /\ selectedEntities = {}
  /\ searchTerm = <<120>>
  /\ VisibleNames(CurrentData) # {}
  /\ VisibleNames(CurrentData) # BaseNames(originalNetworkData)
  /\ VisibleLinks(CurrentData) # BaseLinks(originalNetworkData)

\* the nodes directly linked to a selected entity
LinkedToSelection(orig, sel) ==
  {n \in BaseNames(orig) :
     \E k \in 1..Len(orig.links) :
        \/ orig.links[k].source \in sel /\ orig.links[k].target = n
        \/ orig.links[k].target \in sel /\ orig.links[k].source = n}

\* C7: when entities are selected, the visible nodes are exactly the selected
\* entities plus every node directly linked to one, and the visible links
\* are exactly the base links with a selected endpoint, whatever the search
\* term, the selected types and minConnections.
C7_SelectionRule ==
  (~loading /\ selectedEntities # {}) =>
    /\ VisibleNames(CurrentData) =
         selectedEntities \cup LinkedToSelection(originalNetworkData, selectedEntities)
    /\ Len(CurrentData.nodes) = Cardinality(VisibleNames(CurrentData))
    /\ VisibleLinks(CurrentData) =
         {l \in BaseLinks(originalNetworkData) :
            l[1] \in selectedEntities \/ l[2] \in selectedEntities}
    /\ Len(CurrentData.links) = Cardinality(VisibleLinks(CurrentData))

\* Scenario C: Y selected on Scenario A while minConnections = 2 is active
C7_Witness ==
  /\ ~loading
  /\ table = ScenarioA
  /\ selectedEntities = {nY}
  /\ minConnections = 2
  /\ VisibleNames(CurrentData) = {nX, nY}
  /\ VisibleLinks(CurrentData) = {<<nX, nY>>}

\* all three types, empty search, minConnections = 1, nothing selected
IdentityFilter ==
  /\ selectedEntityTypes = AllEntityTypes
  /\ searchTerm = <<>>
  /\ minConnections = 1
  /\ selectedEntities = {}

\* C8 as stated: after a filter F, the identity filter makes every node and
\* every link of the base graph visible.
C8_IdentityRestoresAll ==
  (~loading /\ narrowed /\ IdentityFilter) =>
    /\ VisibleNames(CurrentData) = BaseNames(originalNetworkData)
    /\ VisibleLinks(CurrentData) = BaseLinks(originalNetworkData)

\* C8, amended: after a filter F, the identity filter makes visible every
\* base link and every base node that has at least one connection; the base
\* nodes without connections stay hidden.
C8_IdentityShowsConnected ==
  (~loading /\ narrowed /\ IdentityFilter) =>
    /\ VisibleNames(CurrentData) =
         {originalNetworkData.nodes[k].id :
            k \in {m \in 1..Len(originalNetworkData.nodes) :
                     originalNetworkData.nodes[m].connections >= 1}}
    /\ VisibleLinks(CurrentData) = BaseLinks(originalNetworkData)
    /\ Len(CurrentData.links) = Len(originalNetworkData.links)

\* the identity filter, back after a narrower one, on a base graph that has
\* connected nodes, a link and a node without connections
C8_Witness ==
  /\ ~loading
  /\ narrowed
  /\ IdentityFilter
  /\ BaseLinks(originalNetworkData) # {}
  /\ \E k \in 1..Len(originalNetworkData.nodes) : originalNetworkData.nodes[k].connections = 0

\* ------------------------------------------------------------------------
\* Properties of the position cache
\* ------------------------------------------------------------------------
\* C9: a node that is visible with a position recorded in graphState and that
\* stays visible through a change of the filters is rendered, after the
\* change, exactly at its graphState position: the layout that follows the
\* change does not move it.
C9_KeptNodesStayAtCachedPosition ==
  \A id \in kept :
     /\ id \in DOMAIN gnodes
     /\ id \in DOMAIN graphState.nodePositions
     /\ gnodes[id].pos = graphState.nodePositions[id]

\* C10: after X is dragged to p and released and a save has occurred, applying
\* a filter change and then reverting it leaves X at exactly p, whatever saves
\* happen while the filter is applied, also when the filter hides X.
C10_RevertLeavesDroppedNodeInPlace ==
  [][(dropped.stage = "filtered" /\ filterVars' # filterVars /\ filterVars' = dropped.base)
       => /\ dropped.node \in DOMAIN gnodes'
          /\ gnodes'[dropped.node].pos = dropped.pos]_vars

\* ------------------------------------------------------------------------
\* Properties of reset layout and restore original
\* ------------------------------------------------------------------------
\* C11: originalGraphCache.state is set by the first graph-state save after
\* the load and no later save replaces it; handleRestoreOriginal sets
\* graphState to that first state whatever was saved in between.
C11_OriginalStateIsFirstSave ==
  [][/\ originalGraphCache.hasState => originalGraphCache' = originalGraphCache
     /\ (originalGraphCache.set /\ ~originalGraphCache.hasState /\ graphState' # graphState)
          => /\ originalGraphCache'.hasState
             /\ originalGraphCache'.state = graphState'.nodePositions
     /\ (restoreBackups' # restoreBackups /\ restoreBackups \subseteq restoreBackups')
          => graphState' = [set |-> TRUE, nodePositions |-> originalGraphCache.state]]_vars

\* restore original was clicked in a filtered view whose nodes are not those
\* of the first saved state
C11_Witness ==
  /\ restoreBackups # {}
  /\ originalGraphCache.hasState
  /\ graphState.set
  /\ graphState.nodePositions = originalGraphCache.state
  /\ selectedEntityTypes # AllEntityTypes
  /\ DOMAIN gnodes # DOMAIN originalGraphCache.state
  /\ mounted

\* C12: handleResetLayout empties graphState, and the positions cached before
\* the reset are not applied to the nodes again: while graphState is empty no
\* restore timeout writes cached positions into the graph.
C12_ResetDiscardsCachedPositions ==
  [][/\ (graphState.set /\ ~graphState'.set) => graphState'.nodePositions = EmptyMap
     /\ (~graphState.set /\ mounted') => restoreTimers \subseteq restoreTimers']_vars

\* ------------------------------------------------------------------------
\* Properties of the highlight and the detail popup
\* ------------------------------------------------------------------------
\* C13: from the idle page (no highlight, no popup), a click on n highlights n
\* and opens no popup; a second click on n opens the popup of n and clears the
\* highlight; closing the popup then leaves the page idle again.
C13_TwoClicksOpenDetail ==
  \A n \in EntityNames :
     /\ clickTrail = <<ClickOn(n)>>
          => highlightedNode = n /\ selectedNode = NoNode
     /\ clickTrail = <<ClickOn(n), ClickOn(n)>>
          => selectedNode = n /\ highlightedNode = NoNode
     /\ clickTrail = <<ClickOn(n), ClickOn(n), ClosePopup>>
          => selectedNode = NoNode /\ highlightedNode = NoNode

\* X was clicked twice from the idle page and its popup was closed
C13_Witness ==
  /\ clickTrail = <<ClickOn(nX), ClickOn(nX), ClosePopup>>
  /\ highlightedNode = NoNode
  /\ selectedNode = NoNode

\* C14: a click on m while another node n is highlighted highlights m and
\* leaves the popup closed; every step that opens a popup is a click on the
\* node highlighted before the step.
C14_OtherNodeRehighlights ==
  [][/\ \A n \in EntityNames, m \in EntityNames :
          (/\ n # m
           /\ highlightedNode = n
           /\ clickTrail' # clickTrail
           /\ clickTrail' # <<>>
           /\ clickTrail'[Len(clickTrail')] = ClickOn(m))
            => highlightedNode' = m /\ selectedNode' = NoNode
     /\ (selectedNode' # NoNode /\ selectedNode' # selectedNode)
            => highlightedNode = selectedNode']_vars

\* Y was clicked while X was highlighted, and clicked again: its popup is open
C14_Witness ==
  /\ clickTrail = <<ClickOn(nX), ClickOn(nY), ClickOn(nY)>>
  /\ selectedNode = nY
  /\ highlightedNode = NoNode

\* ------------------------------------------------------------------------
\* Properties of the fetch
\* ------------------------------------------------------------------------
\* the pages requested so far start at 0, BatchSize, 2 * BatchSize, ..., each
\* but the first was requested after the response to the one before it, and
\* every page before the last requested one came back full
PagesInTurn ==
  /\ \A k \in 1..Len(fetch.requests) : fetch.requests[k] = (k - 1) * BatchSize
  /\ Len(fetch.requests) <= fetch.responses + 1
  /\ \A k \in 1..(Len(fetch.requests) - 1) :
        Len(PageRows(table, fetch.requests[k])) = BatchSize

\* the call has returned: the last page requested was the first short one and
\* the result is the table, each row once, in id order
ReturnsTheTable ==
  fetch.stage = "returned"
    => /\ Len(PageRows(table, fetch.requests[Len(fetch.requests)])) < BatchSize
       /\ fetch.responses = Len(fetch.requests)
       /\ fetch.allEntities = table

\* C15: fetchAllEntities requests its pages at offsets 0, BatchSize,
\* 2 * BatchSize, ... one at a time, stops at the first page with fewer than
\* BatchSize rows, and on an unchanging table terminates and returns all rows
\* exactly once in id order.
C15_PagesInOrderReturnAllRows ==
  /\ [](PagesInTurn /\ ReturnsTheTable)
  /\ (fetch.stage = "waiting") ~> (fetch.stage = "returned")

\* a table of exactly one full page was fetched: the full page, then an empty one
C15_Witness ==
  /\ Len(table) = BatchSize
  /\ fetch.stage = "returned"
  /\ fetch.requests = <<0, BatchSize>>
  /\ fetch.allEntities = table
  /\ svc = "nodesFetched"

\* C16: when a page request of fetchAllEntities comes back with an error, the
\* call throws: its caller receives no rows, those of the earlier pages
\* included, and getNetworkData fails with that same error.
C16_PageErrorAbortsTheLoad ==
  /\ [](svc = "failed" => /\ fetch.stage = "thrown"
                          /\ fetch.error \in Errors
                          /\ svcError = fetch.error)
  /\ [][(fetch.stage = "waiting" /\ fetch'.stage = "thrown")
          => /\ svc' = "failed"
             /\ svcError' = fetch'.error
             /\ UNCHANGED <<nodeEntities, relEntities, relationships, netNodes, netLinks>>]_vars

\* the second page of the first call failed after a full first page
C16_Witness ==
  /\ fetch.stage = "thrown"
  /\ Len(fetch.allEntities) = BatchSize
  /\ fetch.requests = <<0, BatchSize>>
  /\ nodeEntities = <<>>
  /\ svc = "failed"
  /\ svcError = "timeout"

\* ------------------------------------------------------------------------
\* Properties of the load
\* ------------------------------------------------------------------------
NoData == [nodes |-> <<>>, links |-> <<>>]

\* C17: once getNetworkData has failed, the page ends with error set, loading
\* false and originalNetworkData still empty, and stays so; a load that
\* succeeded, with zero mentions or more, ends with error null.
C17_FailedLoadShowsError ==
  /\ [](svc = "failed" => /\ originalNetworkData = NoData
                          /\ ~mounted
                          /\ loading = ~error)
  /\ []((svc = "done" /\ ~loading) => ~error)
  /\ [][(svc = "failed" /\ loading) => (error' /\ ~loading')]_<<error, loading>>
  /\ [][error => UNCHANGED <<error, loading, originalNetworkData>>]_vars

\* the second call of fetchAllEntities failed after createNetworkNodes had its
\* rows, and the page shows the error
C17_Witness ==
  /\ svc = "failed"
  /\ Len(nodeEntities) > 0
  /\ error
  /\ ~loading
  /\ originalNetworkData = NoData

\* C18: with no row in feature_entities getNetworkData returns nodes = [] and
\* links = [], and the page ends without error, not loading, with no visible
\* node.
C18_ZeroMentionsIsEmptyGraph ==
  (Len(table) = 0 /\ svc = "done")
    => /\ netNodes = <<>>
       /\ netLinks = <<>>
       /\ ~loading => /\ ~error
                      /\ originalNetworkData = NoData
                      /\ CurrentData = NoData
                      /\ ~mounted

\* the empty table was loaded
C18_Witness ==
  /\ Len(table) = 0
  /\ svc = "done"
  /\ svcError = "none"
  /\ ~loading
  /\ ~error
  /\ CurrentData = NoData

\* ------------------------------------------------------------------------
\* Properties of the type normalizer
\* ------------------------------------------------------------------------
\* the words looked for inside a type: PERSON, PER, LOCATION, LOC, PLACE, ORG,
\* COMPANY, INSTITUTION
PatternWords ==
  {<<80, 69, 82, 83, 79, 78>>,
   <<80, 69, 82>>,
   <<76, 79, 67, 65, 84, 73, 79, 78>>,
   <<76, 79, 67>>,
   <<80, 76, 65, 67, 69>>,
   <<79, 82, 71>>,
   <<67, 79, 77, 80, 65, 78, 89>>,
   <<73, 78, 83, 84, 73, 84, 85, 84, 73, 79, 78>>}

\* the text, compared without regard to case and surrounding blanks, is one
\* of PEOPLE, LOCATIONS, ORGANIZATIONS or contains one of the pattern words
MatchesSomePattern(text) ==
  \/ Trim(ToUpperCase(text)) \in {tPEOPLE, tLOCATIONS, tORGANIZATIONS}
  \/ \E word \in PatternWords : Includes(ToUpperCase(text), word)

\* C19: normalizeEntityType returns one of PERSON, LOCATION, ORGANIZATION for
\* every input, the empty and the missing one included; the result is the
\* same for the input written in upper case and in lower case; and it is
\* ORGANIZATION for every input that matches no pattern.
C19_NormalizerIsTotalAndCaseBlind ==
  typeOutput # "none"
    => /\ typeOutput \in {"PERSON", "LOCATION", "ORGANIZATION"}
       /\ typeInput # Missing
            => /\ typeOutput = normalizeEntityType(ToUpperCase(typeInput))
               /\ typeOutput = normalizeEntityType(ToLowerCase(typeInput))
       /\ (typeInput = Missing \/ ~MatchesSomePattern(typeInput))
            => typeOutput = "ORGANIZATION"

\* " Place" was normalized to LOCATION
C19_Witness ==
  /\ typeInput = <<32, 80, 108, 97, 99, 101>>
  /\ typeOutput = "LOCATION"

\* ------------------------------------------------------------------------
\* Properties of the drag release
\* ------------------------------------------------------------------------
\* C20: the release of a dragged node triggers a graph-state save: the step
\* of the release either makes the save, graphState then holding the node at
\* its drop position, or leaves the save timeout pending.
C20_ReleaseTriggersSave ==
  [][(isDragging /\ ~isDragging' /\ mounted' /\ draggedNode.live)
       => \/ /\ graphState' # graphState
             /\ draggedNode.id \in DOMAIN graphState'.nodePositions
             /\ graphState'.nodePositions[draggedNode.id] = gnodes'[draggedNode.id].pos
          \/ saveTimer']_vars

\* ------------------------------------------------------------------------
\* Further properties of the highlight and the detail popup
\* ------------------------------------------------------------------------
\* C28: highlightedNode and selectedNode are never both set, whatever clicks,
\* clears of the highlight and closes of the popup have been made.
C28_HighlightExcludesPopup ==
  ~(highlightedNode # NoNode /\ selectedNode # NoNode)

\* Y was highlighted, X was clicked, and X was clicked again: the popup of X
\* is open and nothing is highlighted
C28_Witness ==
  /\ clickTrail = <<ClickOn(nY), ClickOn(nX), ClickOn(nX)>>
  /\ selectedNode = nX
  /\ highlightedNode = NoNode

\* ------------------------------------------------------------------------
\* Further properties of the visible subset
\* ------------------------------------------------------------------------
\* C26: under every filter state, with and without selected entities, both
\* ends of every link of networkData are ids of nodes of networkData.
C26_NoDanglingLink ==
  \A data \in {CurrentData} :
     \A k \in 1..Len(data.links) :
        /\ data.links[k].source \in VisibleNames(data)
        /\ data.links[k].target \in VisibleNames(data)

\* Y alone is selected on Scenario A while the minimum of 2 connections is
\* set: the link (X, Y) is shown, and X with it
C26_Witness ==
  /\ table = ScenarioA
  /\ selectedEntities = {nY}
  /\ minConnections = 2
  /\ Len(CurrentData.links) = 1
  /\ VisibleNames(CurrentData) = {nX, nY}

\* ------------------------------------------------------------------------
\* Properties of one getNetworkData call on a changing table
\* ------------------------------------------------------------------------
\* the links of the result that touch the node
LinksTouching(id) ==
  {k \in 1..Len(netLinks) : netLinks[k].source = id \/ netLinks[k].target = id}

\* C27: in the result of one getNetworkData call both ends of every link are
\* ids of returned nodes and every node's connections is the number of
\* returned links touching it, also when rows were inserted or deleted
\* between the passes of the call.
C27_ResultIsConsistent ==
  svc = "done"
    => /\ \A k \in 1..Len(netLinks) :
             /\ \E n \in 1..Len(netNodes) : netNodes[n].id = netLinks[k].source
             /\ \E n \in 1..Len(netNodes) : netNodes[n].id = netLinks[k].target
       /\ \A n \in 1..Len(netNodes) :
             netNodes[n].connections = Cardinality(LinksTouching(netNodes[n].id))
\* ------------------------------------------------------------------------
\* C29
\* ------------------------------------------------------------------------
\* the connections of a list are in descending order of count
Descending(list) ==
  \A i, j \in 1..Len(list) : i < j => list[i].coOccurrenceCount >= list[j].coOccurrenceCount

\* C29: each of the three lists getTopConnections returns has at most 3
\* connections, in descending order of their count
C29_AtMostThreePerType ==
  connResult.loaded =>
    \A list \in {connResult.connections.people, connResult.connections.locations,
                  connResult.connections.organizations} :
      Len(list) <= 3 /\ Descending(list)


\* ------------------------------------------------------------------------
\* C30
\* ------------------------------------------------------------------------
\* the two normalizers return the same type for every input
NormalizersAgree ==
  \A t \in TypeInputs :
    normalizeEntityType(t) = EntityConnectionService_normalizeEntityType(t)

\* people, locations and organizations of the popup, one after the other
PopupConnections ==
  connResult.connections.people \o connResult.connections.locations
    \o connResult.connections.organizations

\* the entity_type values the rows of an entity are stored with
RawTypesOf(rows, name) ==
  {rows[i].entity_type : i \in {j \in 1..Len(rows) : rows[j].entity_name = name}}

\* the type of the graph node of an entity
GraphTypeOf(nodes, name) ==
  nodes[CHOOSE k \in 1..Len(nodes) : nodes[k].id = name].type

\* C30 as stated: the two normalizers return the same type for every input,
\* and every entity the popup lists has the type of its node in the graph
C30_NeverClassifiedDifferently ==
  /\ NormalizersAgree
  /\ connResult.loaded =>
       \A nodes \in {createNetworkNodes(table, calculateEntityRelationships(table))} :
         \A k \in 1..Len(PopupConnections) :
           PopupConnections[k].entityType = GraphTypeOf(nodes, PopupConnections[k].entityName)

\* C30: the two normalizers return the same type for every input, and every
\* entity the popup lists whose rows are all stored with one entity_type has
\* the type of its node in the graph
C30_SameTypeForSameInput ==
  /\ NormalizersAgree
  /\ connResult.loaded =>
       \A nodes \in {createNetworkNodes(table, calculateEntityRelationships(table))} :
         \A k \in 1..Len(PopupConnections) :
           Cardinality(RawTypesOf(table, PopupConnections[k].entityName)) = 1
             => PopupConnections[k].entityType
                  = GraphTypeOf(nodes, PopupConnections[k].entityName)

\* the popup of X lists Z, stored as PEOPLE, as a person, which is its type
\* in the graph, next to Y, stored as LOCATIONS and as PEOPLE
C30_Witness ==
  /\ table = <<ConnRow(nY, tLOCATIONS, 2), ConnRow(nY, tPEOPLE, 1),
               ConnRow(nX, tPEOPLE, 1), ConnRow(nZ, tPEOPLE, 1)>>
  /\ connResult.loaded
  /\ Len(connResult.connections.people) = 2
  /\ GraphTypeOf(createNetworkNodes(table, calculateEntityRelationships(table)), nZ) = "PERSON"

\* ------------------------------------------------------------------------
\* C25
\* ------------------------------------------------------------------------
\* C25: under every filter, each node of the graph is drawn with the size
\* 30 + (connections / maxConnections) * 60, maxConnections being the largest
\* connections of the base graph; the size is between 30 and 90
C25_SizeFromBaseGraph ==
  \A data \in {CurrentData} :
    \A k \in 1..Len(data.nodes) :
      \A size \in {RenderedSize(data.nodes, data.nodes[k])} :
        /\ size = 30 + (data.nodes[k].connections * 60)
                          \div MaxConnectionsFrom(originalNetworkData.nodes, 1)
        /\ size >= 30
        /\ size <= 90

\* ------------------------------------------------------------------------
\* C22
\* ------------------------------------------------------------------------
\* the node being dragged is not pinned
DraggedIsUnpinned ==
  isDragging =>
    /\ draggedNode.set
    /\ draggedNode.id \in DOMAIN gnodes
    /\ ~gnodes[draggedNode.id].pinned

\* the step ends a drag: the node is pinned where it was dropped and
\* draggedNode is null
ReleasePins ==
  (isDragging /\ ~isDragging')
    => /\ draggedNode' = NoDraggedNode
       /\ draggedNode.id \in DOMAIN gnodes'
       /\ gnodes'[draggedNode.id] = [pos |-> gnodes[draggedNode.id].pos, pinned |-> TRUE]

\* C22: while a node is dragged it is unpinned and isDragging is true; the
\* release pins it at the place it was dropped, with isDragging false and
\* draggedNode null
C22_DragUnpinsReleasePins == []DraggedIsUnpinned /\ [][ReleasePins]_vars

\* ------------------------------------------------------------------------
\* C23
\* ------------------------------------------------------------------------
\* the step starts the simulation of a graph whose layout had settled
RelaxationRestarts ==
  mounted /\ mounted' /\ isInitialized /\ ~simRunning /\ simRunning'

\* the step changes a filter and fewer than half of the cached positions
\* belong to nodes of the new visible set (or nothing is cached)
FilterInvalidatesCache ==
  /\ filterVars' # filterVars
  /\ \/ ~graphState.set
     \/ \E data \in {CurrentData'} :
          2 * Cardinality(DOMAIN graphState.nodePositions \cap VisibleNames(data))
            < Cardinality(DOMAIN graphState.nodePositions)

\* the step is a reset of the layout
LayoutIsReset == graphState.set /\ ~graphState'.set

\* C23: once the layout has settled the simulation is started again only by
\* a filter change that leaves fewer than half of the cached positions with
\* a visible node, or by a reset of the layout
C23_RelaxationOnlyWhenCacheInvalid ==
  [][RelaxationRestarts => (FilterInvalidatesCache \/ LayoutIsReset)]_vars

\* ------------------------------------------------------------------------
\* C21, C24
\* ------------------------------------------------------------------------
\* the cache createStaticLayout reads holds a place
CacheHasPlaces ==
  staticProps.graphState.set /\ DOMAIN staticProps.graphState.nodePositions # {}

====
